---- MODULE Spec2Model ----
(***************************************************************************)
(* The intent resolution and action dispatch pipeline of GitHubAgent       *)
(* (github_agent_streamlit.py): parse_intent, _enrich_intent,              *)
(* _fallback_parse, execute, format_response and process, with the model   *)
(* client (OllamaClient) and the remote client (GitHubClient) as           *)
(* collaborators whose return values are chosen nondeterministically.      *)
(*                                                                         *)
(* Texts are sequences of one-character strings.  Numbers read from JSON   *)
(* are exact decimals: mantissa n and number of fraction digits e.         *)
(***************************************************************************)
EXTENDS Integers, Sequences, FiniteSets, TLC

(***************************************************************************)
(* Characters and str methods                                              *)
(***************************************************************************)
UpperLetters ==
  <<"A","B","C","D","E","F","G","H","I","J","K","L","M",
    "N","O","P","Q","R","S","T","U","V","W","X","Y","Z">>

LowerLetters ==
  <<"a","b","c","d","e","f","g","h","i","j","k","l","m",
    "n","o","p","q","r","s","t","u","v","w","x","y","z">>

DigitChars == <<"0","1","2","3","4","5","6","7","8","9">>

Range(f) == {f[i] : i \in DOMAIN f}

\* the character class [a-zA-Z0-9_.-] of repo_pattern
TokenChars ==
  Range(UpperLetters) \cup Range(LowerLetters) \cup Range(DigitChars) \cup {"_", ".", "-"}

\* the characters str.strip() removes
Whitespace == {" ", "\n", "\t", "\r"}

\* str.lower(), one character
LowerChar(c) ==
  IF \E i \in 1..26 : UpperLetters[i] = c
    THEN LowerLetters[CHOOSE i \in 1..26 : UpperLetters[i] = c]
    ELSE c

\* str.lower()
Lower(s) == [i \in 1..Len(s) |-> LowerChar(s[i])]

\* s[i:].startswith(w), i counted from 1
StartsAt(s, w, i) ==
  /\ i >= 1
  /\ i + Len(w) - 1 <= Len(s)
  /\ SubSeq(s, i, i + Len(w) - 1) = w

\* w in s, for strings
Contains(s, w) == \E i \in 1..(Len(s) - Len(w) + 1) : StartsAt(s, w, i)

\* s.find(w, from): the least index >= from where w starts, 0 when there is none
Find(s, w, from) ==
  LET hits == {i \in from..(Len(s) - Len(w) + 1) : StartsAt(s, w, i)}
  IN IF hits = {} THEN 0 ELSE CHOOSE i \in hits : \A j \in hits : i <= j

\* s[i:], i counted from 1
Tail_(s, i) == SubSeq(s, i, Len(s))

RECURSIVE Split(_, _)
\* s.split(sep) for a non-empty separator
Split(s, sep) ==
  LET i == Find(s, sep, 1)
  IN IF i = 0 THEN <<s>>
     ELSE <<SubSeq(s, 1, i - 1)>> \o Split(Tail_(s, i + Len(sep)), sep)

RECURSIVE Replace(_, _, _)
\* s.replace(old, new) for a non-empty old
Replace(s, old, new) ==
  LET i == Find(s, old, 1)
  IN IF i = 0 THEN s
     ELSE SubSeq(s, 1, i - 1) \o new \o Replace(Tail_(s, i + Len(old)), old, new)

\* s.strip(chars) with chars given as a set
StripChars(s, chars) ==
  LET keep == {i \in 1..Len(s) : s[i] \notin chars}
  IN IF keep = {} THEN <<>>
     ELSE SubSeq(s, CHOOSE i \in keep : \A j \in keep : i <= j,
                    CHOOSE i \in keep : \A j \in keep : i >= j)

\* s.strip()
Strip(s) == StripChars(s, Whitespace)

(***************************************************************************)
(* repo_pattern = r'([a-zA-Z0-9_.-]+)/([a-zA-Z0-9_.-]+)' and re.search     *)
(***************************************************************************)
\* the last index of the maximal run of token characters that starts at i
RunEnd(s, i) ==
  LET stops == {j \in i..Len(s) : s[j] \notin TokenChars}
  IN IF stops = {} THEN Len(s)
     ELSE (CHOOSE j \in stops : \A k \in stops : j <= k) - 1

\* the pattern matches with its first group starting at i: the greedy first
\* group must run to the end of the token run, since '/' is not a token character
MatchesAt(s, i) ==
  /\ s[i] \in TokenChars
  /\ LET e == RunEnd(s, i)
     IN /\ e + 2 <= Len(s)
        /\ s[e + 1] = "/"
        /\ s[e + 2] \in TokenChars

\* re.search(repo_pattern, s): the leftmost match, groups 1 and 2
RepoSearch(s) ==
  LET starts == {i \in 1..Len(s) : MatchesAt(s, i)}
  IN IF starts = {} THEN [found |-> FALSE, owner |-> <<>>, repo |-> <<>>]
     ELSE LET i == CHOOSE a \in starts : \A b \in starts : a <= b
              e == RunEnd(s, i)
          IN [found |-> TRUE,
              owner |-> SubSeq(s, i, e),
              repo  |-> SubSeq(s, e + 2, RunEnd(s, e + 2))]

(***************************************************************************)
(* Python values as json.loads builds them.  Every value is a record of    *)
(* the same shape; t is its type: "null" (None), "bool", "num", "str",     *)
(* "list" or "dict".  A number is the exact decimal n / 10^e.  A dict is   *)
(* a sequence of <<key, value>> pairs with distinct keys, a list a         *)
(* sequence of <<<<>>, value>> pairs.                                      *)
(***************************************************************************)
JNull == [t |-> "null", s |-> <<>>, n |-> 0, e |-> 0, kv |-> <<>>]

JBool(b) == [t |-> "bool", s |-> <<>>, n |-> IF b THEN 1 ELSE 0, e |-> 0, kv |-> <<>>]

JNum(n, e) == [t |-> "num", s |-> <<>>, n |-> n, e |-> e, kv |-> <<>>]

JStr(s) == [t |-> "str", s |-> s, n |-> 0, e |-> 0, kv |-> <<>>]

JList(items) == [t |-> "list", s |-> <<>>, n |-> 0, e |-> 0, kv |-> items]

JDict(kv) == [t |-> "dict", s |-> <<>>, n |-> 0, e |-> 0, kv |-> kv]

\* k in d, for a dict d
HasKey(d, k) == \E i \in 1..Len(d.kv) : d.kv[i][1] = k

\* d[k] for a key that is present
Lookup(d, k) == d.kv[CHOOSE i \in 1..Len(d.kv) : d.kv[i][1] = k][2]

\* d.get(k, default)
Get(d, k, default) == IF HasKey(d, k) THEN Lookup(d, k) ELSE default

\* d[k] = v
DictSet(d, k, v) ==
  IF HasKey(d, k)
    THEN JDict([i \in 1..Len(d.kv) |-> IF d.kv[i][1] = k THEN <<k, v>> ELSE d.kv[i]])
    ELSE JDict(Append(d.kv, <<k, v>>))

\* bool(v): Python truthiness
Truthy(v) ==
  CASE v.t = "null" -> FALSE
    [] v.t = "bool" -> v.n = 1
    [] v.t = "num"  -> v.n # 0
    [] v.t = "str"  -> v.s # <<>>
    [] OTHER        -> v.kv # <<>>

RECURSIVE Pow10(_)
Pow10(k) == IF k = 0 THEN 1 ELSE 10 * Pow10(k - 1)

(***************************************************************************)
(* json.loads, for JSON texts without exponents, \u escapes and the        *)
(* NaN / Infinity extensions (none occurs in the modelled responses).      *)
(***************************************************************************)
\* s[i], or "" past the end of s
At(s, i) == IF i >= 1 /\ i <= Len(s) THEN s[i] ELSE ""

\* the first index >= i that holds no whitespace (Len(s) + 1 when there is none)
SkipWs(s, i) ==
  LET rest == {j \in i..Len(s) : s[j] \notin Whitespace}
  IN IF rest = {} THEN Len(s) + 1 ELSE CHOOSE j \in rest : \A k \in rest : j <= k

ParseFail == [ok |-> FALSE, v |-> JNull, p |-> 0]

ParseOk(v, p) == [ok |-> TRUE, v |-> v, p |-> p]

DigitVal(c) == (CHOOSE i \in 1..10 : DigitChars[i] = c) - 1

IsDigit(c) == c \in Range(DigitChars)

\* the last index of the run of digits that starts at i (i - 1 when s[i] is no digit)
DigitsEnd(s, i) ==
  LET stops == {j \in i..Len(s) : ~IsDigit(s[j])}
  IN IF stops = {} THEN Len(s)
     ELSE (CHOOSE j \in stops : \A k \in stops : j <= k) - 1

RECURSIVE NumVal(_, _, _)
\* the value of the digits s[a..b]
NumVal(s, a, b) == IF b < a THEN 0 ELSE 10 * NumVal(s, a, b - 1) + DigitVal(s[b])

\* a JSON number at i: -?(0|[1-9][0-9]*)(\.[0-9]+)?
ParseNumber(s, i) ==
  LET neg  == At(s, i) = "-"
      j    == IF neg THEN i + 1 ELSE i
      k    == IF At(s, j) = "0" THEN j ELSE DigitsEnd(s, j)
      frac == At(s, k + 1) = "." /\ IsDigit(At(s, k + 2))
      m    == IF frac THEN DigitsEnd(s, k + 2) ELSE k
      fd   == IF frac THEN m - (k + 1) ELSE 0
      mant == NumVal(s, j, k) * Pow10(fd) + (IF frac THEN NumVal(s, k + 2, m) ELSE 0)
  IN IF ~IsDigit(At(s, j)) THEN ParseFail
     ELSE ParseOk(JNum(IF neg THEN 0 - mant ELSE mant, fd), m + 1)

\* the first index >= i that holds a quote, a backslash or a control
\* character (Len(s) + 1 when there is none)
StrStop(s, i) ==
  LET stops == {j \in i..Len(s) : s[j] \in {"\"", "\\", "\n", "\t", "\r"}}
  IN IF stops = {} THEN Len(s) + 1 ELSE CHOOSE a \in stops : \A b \in stops : a <= b

RECURSIVE StrBody(_, _, _)
RECURSIVE StrChunk(_, _, _, _)

\* the plain characters s[i..j-1] are taken at once; s[j] closes the string
\* or starts an escape
StrChunk(s, i, j, acc) ==
  CASE At(s, j) = "\"" -> ParseOk(JStr(acc \o SubSeq(s, i, j - 1)), j + 1)
    [] At(s, j) = "\\" /\ At(s, j + 1) \in {"\"", "\\", "/"} ->
         StrBody(s, j + 2, Append(acc \o SubSeq(s, i, j - 1), At(s, j + 1)))
    [] At(s, j) = "\\" /\ At(s, j + 1) = "n" ->
         StrBody(s, j + 2, Append(acc \o SubSeq(s, i, j - 1), "\n"))
    [] At(s, j) = "\\" /\ At(s, j + 1) = "t" ->
         StrBody(s, j + 2, Append(acc \o SubSeq(s, i, j - 1), "\t"))
    [] At(s, j) = "\\" /\ At(s, j + 1) = "r" ->
         StrBody(s, j + 2, Append(acc \o SubSeq(s, i, j - 1), "\r"))
    [] OTHER -> ParseFail

\* the rest of a JSON string whose opening quote precedes i
StrBody(s, i, acc) == StrChunk(s, i, StrStop(s, i), acc)

RECURSIVE ParseValue(_, _)
RECURSIVE ParseMembers(_, _, _)
RECURSIVE MemberColon(_, _, _)
RECURSIVE MemberValue(_, _, _, _)
RECURSIVE MemberEnd(_, _, _, _)
RECURSIVE MemberNext(_, _, _)
RECURSIVE ParseElements(_, _, _)
RECURSIVE ElementEnd(_, _, _)
RECURSIVE ElementNext(_, _, _)

\* the members of an object, the first key expected at j
ParseMembers(s, j, acc) ==
  IF At(s, j) # "\"" THEN ParseFail
  ELSE MemberColon(s, StrBody(s, j + 1, <<>>), acc)

\* after the key: the colon
MemberColon(s, key, acc) ==
  IF ~key.ok THEN ParseFail
  ELSE MemberValue(s, key.v.s, SkipWs(s, key.p), acc)

\* after the colon at k: the value
MemberValue(s, name, k, acc) ==
  IF At(s, k) # ":" THEN ParseFail
  ELSE MemberEnd(s, name, ParseValue(s, SkipWs(s, k + 1)), acc)

\* after the value: the member is stored, a later key replacing an earlier one
MemberEnd(s, name, val, acc) ==
  IF ~val.ok THEN ParseFail
  ELSE MemberNext(s, SkipWs(s, val.p), DictSet(acc, name, val.v))

\* after a member: a comma and the next member, or the closing brace
MemberNext(s, m, acc) ==
  CASE At(s, m) = "," -> ParseMembers(s, SkipWs(s, m + 1), acc)
    [] At(s, m) = "}" -> ParseOk(acc, m + 1)
    [] OTHER -> ParseFail

\* the elements of an array, the first value expected at j
ParseElements(s, j, acc) == ElementEnd(s, ParseValue(s, j), acc)

\* after the value of an element
ElementEnd(s, val, acc) ==
  IF ~val.ok THEN ParseFail
  ELSE ElementNext(s, SkipWs(s, val.p), Append(acc, <<<<>>, val.v>>))

\* after an element: a comma and the next element, or the closing bracket
ElementNext(s, m, acc) ==
  CASE At(s, m) = "," -> ParseElements(s, SkipWs(s, m + 1), acc)
    [] At(s, m) = "]" -> ParseOk(JList(acc), m + 1)
    [] OTHER -> ParseFail

\* one JSON value starting at i
ParseValue(s, i) ==
  CASE At(s, i) = "{" ->
         IF At(s, SkipWs(s, i + 1)) = "}" THEN ParseOk(JDict(<<>>), SkipWs(s, i + 1) + 1)
         ELSE ParseMembers(s, SkipWs(s, i + 1), JDict(<<>>))
    [] At(s, i) = "[" ->
         IF At(s, SkipWs(s, i + 1)) = "]" THEN ParseOk(JList(<<>>), SkipWs(s, i + 1) + 1)
         ELSE ParseElements(s, SkipWs(s, i + 1), <<>>)
    [] At(s, i) = "\"" -> StrBody(s, i + 1, <<>>)
    [] StartsAt(s, <<"t","r","u","e">>, i) -> ParseOk(JBool(TRUE), i + 4)
    [] StartsAt(s, <<"f","a","l","s","e">>, i) -> ParseOk(JBool(FALSE), i + 5)
    [] StartsAt(s, <<"n","u","l","l">>, i) -> ParseOk(JNull, i + 4)
    [] OTHER -> ParseNumber(s, i)

\* the whole text must be one value: trailing text is an error
WholeText(s, r) == IF r.ok /\ SkipWs(s, r.p) = Len(s) + 1 THEN r ELSE ParseFail

\* json.loads(s): ok is FALSE where json.loads raises JSONDecodeError
JsonLoads(s) == WholeText(s, ParseValue(s, SkipWs(s, 1)))

(***************************************************************************)
(* Dictionary keys and action names                                        *)
(***************************************************************************)
KeyAction == <<"a","c","t","i","o","n">>

KeyParams == <<"p","a","r","a","m","s">>

KeyConfidence == <<"c","o","n","f","i","d","e","n","c","e">>

KeyOwner == <<"o","w","n","e","r">>

KeyRepo == <<"r","e","p","o">>

KeyRepository == <<"r","e","p","o","s","i","t","o","r","y">>

KeyUsername == <<"u","s","e","r","n","a","m","e">>

KeyOrg == <<"o","r","g">>

KeyState == <<"s","t","a","t","e">>

KeyTitle == <<"t","i","t","l","e">>

KeyBody == <<"b","o","d","y">>

KeyQuery == <<"q","u","e","r","y">>

KeyError_ == <<"e","r","r","o","r">>

ActUnknown == <<"u","n","k","n","o","w","n">>

ActListRepos == <<"l","i","s","t","_","r","e","p","o","s">>

ActGetRepo == <<"g","e","t","_","r","e","p","o">>

ActListIssues == <<"l","i","s","t","_","i","s","s","u","e","s">>

ActCreateIssue == <<"c","r","e","a","t","e","_","i","s","s","u","e">>

ActListPrs == <<"l","i","s","t","_","p","r","s">>

ActListBranches == <<"l","i","s","t","_","b","r","a","n","c","h","e","s">>

ActListCommits == <<"l","i","s","t","_","c","o","m","m","i","t","s">>

ActGetUser == <<"g","e","t","_","u","s","e","r">>

ActSearchRepos == <<"s","e","a","r","c","h","_","r","e","p","o","s">>

(***************************************************************************)
(* GitHubAgent._fallback_parse                                             *)
(***************************************************************************)
\* the letter o with an acute accent, as one character
OAcute == "<o-acute>"

KwIssues ==
  {<<"i","s","s","u","e">>,
   <<"i","s","s","u","e","s">>,
   <<"p","r","o","b","l","e","m","a","s">>}

KwBranches ==
  {<<"b","r","a","n","c","h">>,
   <<"b","r","a","n","c","h","e","s">>,
   <<"r","a","m","o","s">>}

KwCommits ==
  {<<"c","o","m","m","i","t">>,
   <<"c","o","m","m","i","t","s">>}

KwPrs ==
  {<<"p","r">>,
   <<"p","r","s">>,
   <<"p","u","l","l"," ","r","e","q","u","e","s","t">>,
   <<"p","u","l","l"," ","r","e","q","u","e","s","t","s">>}

KwRepo ==
  {<<"r","e","p","o">>,
   <<"r","e","p","o","s","i","t",OAcute,"r","i","o">>,
   <<"r","e","p","o","s","i","t","o","r","i","o">>}

KwSearch ==
  {<<"b","u","s","c","a">>,
   <<"b","u","s","c","a","r">>,
   <<"p","e","s","q","u","i","s","a">>,
   <<"s","e","a","r","c","h">>}

KwMyRepos ==
  {<<"m","e","u","s"," ","r","e","p","o">>,
   <<"m","e","u","s"," ","r","e","p","o","s","i","t">>,
   <<"l","i","s","t"," ","r","e","p","o">>}

\* any(w in user_lower for w in words)
AnyIn(words, text) == \E w \in words : Contains(text, w)

\* a confidence that drops to 0.2 when owner or repo is missing
FallbackConfidence_Low(owner, repo) ==
  IF owner # <<>> /\ repo # <<>> THEN JNum(7, 1) ELSE JNum(2, 1)

\* the confidence of a fallback intent: 0.7 if owner and repo else 0.3
FallbackConfidence(owner, repo) ==
  IF owner # <<>> /\ repo # <<>> THEN JNum(7, 1) ELSE JNum(3, 1)

\* a keyword chain whose last branch answers list_repos instead of unknown
FallbackAction_DefaultListRepos(user_lower, owner) ==
  IF AnyIn(KwIssues, user_lower) THEN ActListIssues
  ELSE IF AnyIn(KwBranches, user_lower) THEN ActListBranches
  ELSE IF AnyIn(KwCommits, user_lower) THEN ActListCommits
  ELSE IF AnyIn(KwPrs, user_lower) THEN ActListPrs
  ELSE IF AnyIn(KwRepo, user_lower) /\ owner # <<>> THEN ActGetRepo
  ELSE IF AnyIn(KwSearch, user_lower) THEN ActSearchRepos
  ELSE ActListRepos

\* a keyword chain that tests the search words first
FallbackAction_SearchFirst(user_lower, owner) ==
  IF AnyIn(KwSearch, user_lower) THEN ActSearchRepos
  ELSE IF AnyIn(KwIssues, user_lower) THEN ActListIssues
  ELSE IF AnyIn(KwBranches, user_lower) THEN ActListBranches
  ELSE IF AnyIn(KwCommits, user_lower) THEN ActListCommits
  ELSE IF AnyIn(KwPrs, user_lower) THEN ActListPrs
  ELSE IF AnyIn(KwRepo, user_lower) /\ owner # <<>> THEN ActGetRepo
  ELSE IF AnyIn(KwMyRepos, user_lower) THEN ActListRepos
  ELSE ActUnknown

\* the action the keyword groups select, in the order of the if / elif chain
FallbackAction(user_lower, owner) ==
  IF AnyIn(KwIssues, user_lower) THEN ActListIssues
  ELSE IF AnyIn(KwBranches, user_lower) THEN ActListBranches
  ELSE IF AnyIn(KwCommits, user_lower) THEN ActListCommits
  ELSE IF AnyIn(KwPrs, user_lower) THEN ActListPrs
  ELSE IF AnyIn(KwRepo, user_lower) /\ owner # <<>> THEN ActGetRepo
  ELSE IF AnyIn(KwSearch, user_lower) THEN ActSearchRepos
  ELSE IF AnyIn(KwMyRepos, user_lower) THEN ActListRepos
  ELSE ActUnknown

\* a _fallback_parse that also passes the text on as the search query
FallbackParse_WithQuery(user_input) ==
  LET user_lower == Lower(user_input)
      match == RepoSearch(user_input)
      owner == IF match.found THEN match.owner ELSE <<>>
      repo  == IF match.found THEN match.repo ELSE <<>>
  IN JDict(<< <<KeyAction, JStr(FallbackAction(user_lower, owner))>>,
              <<KeyParams, JDict(<< <<KeyOwner, JStr(owner)>>, <<KeyRepo, JStr(repo)>>,
                                    <<KeyQuery, JStr(user_input)>> >>)>>,
              <<KeyConfidence, FallbackConfidence(owner, repo)>> >>)

\* _fallback_parse(user_input)
FallbackParse(user_input) ==
  LET user_lower == Lower(user_input)
      match == RepoSearch(user_input)
      owner == IF match.found THEN match.owner ELSE <<>>
      repo  == IF match.found THEN match.repo ELSE <<>>
  IN JDict(<< <<KeyAction, JStr(FallbackAction(user_lower, owner))>>,
              <<KeyParams, JDict(<< <<KeyOwner, JStr(owner)>>, <<KeyRepo, JStr(repo)>> >>)>>,
              <<KeyConfidence, FallbackConfidence(owner, repo)>> >>)

(***************************************************************************)
(* GitHubAgent._enrich_intent                                              *)
(***************************************************************************)
\* the types on which `"/" in v` raises TypeError
NotIterable(v) == v.t \in {"null", "bool", "num"}

\* "/" in v, for an iterable v: substring of a str, element of a list, key of a dict
SlashIn(v) ==
  CASE v.t = "str"  -> Contains(v.s, <<"/">>)
    [] v.t = "list" -> \E i \in 1..Len(v.kv) : v.kv[i][2] = JStr(<<"/">>)
    [] v.t = "dict" -> HasKey(v, <<"/">>)
    [] OTHER        -> FALSE

\* an _enrich_intent that rescans the text only when owner is missing or
\* holds a '/', whatever repo is
EnrichIntent_OwnerOnly(user_input, intent) ==
  LET p     == Get(intent, KeyParams, JDict(<<>>))
      owner == Get(p, KeyOwner, JNull)
      match == RepoSearch(user_input)
      Raise == [raised |-> TRUE, intent |-> intent]
      Return(v) == [raised |-> FALSE, intent |-> v]
      Rescan == IF ~match.found THEN Return(intent)
                ELSE IF ~HasKey(intent, KeyParams) THEN Raise
                ELSE Return(DictSet(intent, KeyParams,
                       DictSet(DictSet(p, KeyOwner, JStr(match.owner)),
                               KeyRepo, JStr(match.repo))))
  IN IF intent.t # "dict" \/ p.t # "dict" THEN Raise
     ELSE IF ~Truthy(owner) THEN Rescan
     ELSE IF NotIterable(owner) THEN Raise
     ELSE IF ~SlashIn(owner) THEN Return(intent)
     ELSE Rescan

\* _enrich_intent(user_input, intent); raised where the Python raises
\* (AttributeError on .get of a non-dict, TypeError on `in`, KeyError on
\* intent["params"])
EnrichIntent(user_input, intent) ==
  LET p     == Get(intent, KeyParams, JDict(<<>>))
      owner == Get(p, KeyOwner, JNull)
      repo  == Get(p, KeyRepo, JNull)
      match == RepoSearch(user_input)
      Raise == [raised |-> TRUE, intent |-> intent]
      Return(v) == [raised |-> FALSE, intent |-> v]
      Rescan == IF ~match.found THEN Return(intent)
                ELSE IF ~HasKey(intent, KeyParams) THEN Raise
                ELSE Return(DictSet(intent, KeyParams,
                       DictSet(DictSet(p, KeyOwner, JStr(match.owner)),
                               KeyRepo, JStr(match.repo))))
  IN IF intent.t # "dict" \/ p.t # "dict" THEN Raise
     ELSE IF ~(Truthy(owner) /\ Truthy(repo)) THEN Rescan
     ELSE IF NotIterable(owner) THEN Raise
     ELSE IF ~SlashIn(owner) THEN Return(intent)
     ELSE Rescan

(***************************************************************************)
(* GitHubAgent.parse_intent                                                *)
(***************************************************************************)
\* the character ` (a backquote cannot be written inside a string here)
Backtick == "<backtick>"

Fence == <<Backtick, Backtick, Backtick>>

\* the value of depth once the for loop has handled json_str[1..i]
\* (indices from 1): every '{' added one, every '}' took one away
DepthAfter(json_str, i) ==
  Cardinality({j \in 1..i : json_str[j] = "{"}) - Cardinality({j \in 1..i : json_str[j] = "}"})

\* the value of start once the loop has handled json_str[1..i]: the index of
\* the last '{' that was met at depth 0, or 0 (the Python start = -1)
StartAfter(json_str, i) ==
  LET opens == {j \in 1..i : json_str[j] = "{" /\ DepthAfter(json_str, j - 1) = 0}
  IN IF opens = {} THEN 0 ELSE CHOOSE j \in opens : \A k \in opens : j >= k

\* the for loop over enumerate(json_str): it breaks at the first '}' that
\* brings depth to 0 while start >= 0 and cuts json_str[start:i+1]; when it
\* never breaks, json_str stays as it is
BraceScan(json_str) ==
  LET breaks == {i \in 1..Len(json_str) :
                   /\ json_str[i] = "}"
                   /\ DepthAfter(json_str, i) = 0
                   /\ StartAfter(json_str, i) >= 1}
  IN IF breaks = {} THEN json_str
     ELSE LET i == CHOOSE a \in breaks : \A b \in breaks : a <= b
          IN SubSeq(json_str, StartAfter(json_str, i), i)

\* lines 522-540: the text handed to json.loads, for a str response
ExtractJson(response) ==
  LET stripped == Strip(response)
      unfenced == IF Contains(stripped, Fence)
                    THEN Strip(Replace(Split(stripped, Fence)[2], <<"j","s","o","n">>, <<>>))
                    ELSE stripped
  IN BraceScan(unfenced)

\* lines 545-549 once json.loads returned or raised: the enriched intent,
\* or the fallback when json.loads or _enrich_intent raised
Enriched(user_input, loaded, enriched) ==
  IF loaded.ok /\ ~enriched.raised
    THEN [path |-> "model", intent |-> enriched.intent]
    ELSE [path |-> "fallback", intent |-> FallbackParse(user_input)]

\* lines 542-549 for the text handed to json.loads
Loaded(user_input, loaded) ==
  Enriched(user_input, loaded, EnrichIntent(user_input, loaded.v))

\* a parse_intent that answers a failed parse with a fixed unknown intent
ParseIntent_NoFallback(user_input, response) ==
  IF response.t = "str" /\ Loaded(user_input, JsonLoads(ExtractJson(response.s))).path = "model"
    THEN Loaded(user_input, JsonLoads(ExtractJson(response.s)))
    ELSE [path |-> "fallback",
          intent |-> JDict(<< <<KeyAction, JStr(ActUnknown)>>,
                              <<KeyParams, JDict(<<>>)>>,
                              <<KeyConfidence, JNum(0, 1)>> >>)]

\* parse_intent after the chat call returned response (a str, or None when
\* the completion carries a null content, on which .strip() raises): path
\* tells which classifier produced the intent
ParseIntent(user_input, response) ==
  IF response.t = "str"
    THEN Loaded(user_input, JsonLoads(ExtractJson(response.s)))
    ELSE [path |-> "fallback", intent |-> FallbackParse(user_input)]

(***************************************************************************)
(* User-facing messages.  A message is a text whose elements are whole     *)
(* pieces of the literal; accents are dropped and the cross-mark emoji is  *)
(* written <cross-mark>.                                                   *)
(***************************************************************************)
MsgOwnerRepoExample == <<"Informe owner/repo. Ex: microsoft/vscode">>

MsgOwnerRepo == <<"Informe owner/repo">>

MsgSearchTerm == <<"Informe o termo de busca">>

MsgUnknownAction == <<"Acao nao reconhecida">>

CorrectiveHint == <<"Tente ser mais especifico, ex: 'issues do microsoft/vscode'">>

\* the KeyError message without the corrective hint
MsgKeyError_NoHint(key) ==
  <<"Parametro faltando: ">> \o (<<"'">> \o key \o <<"'">>)

\* f"Parametro faltando: {e}. Tente ...", e the KeyError of a missing key
MsgKeyError(key) ==
  <<"Parametro faltando: ">> \o (<<"'">> \o key \o <<"'">>) \o <<". ">> \o CorrectiveHint

MsgListIssuesParams ==
  <<"Parametros 'owner' e 'repo' sao obrigatorios. Exemplo: microsoft/vscode">>

GuidanceMessage ==
  <<"Nao entendi o pedido. Tente: 'Liste meus repositorios' ou 'Mostre issues do microsoft/vscode'">>

ErrorPrefix == <<"<cross-mark> **Erro:** ">>

\* {"error": msg}
ErrorRecord(msg) == JDict(<< <<KeyError_, JStr(msg)>> >>)

\* a test that takes no result for an Error Record
IsErrorRecord_Never(data) == FALSE

\* isinstance(data, dict) and "error" in data
IsErrorRecord(data) == data.t = "dict" /\ HasKey(data, KeyError_)

(***************************************************************************)
(* GitHubClient: each method builds one endpoint and calls _request once;  *)
(* list_issues first validates and cleans its parameters.                  *)
(***************************************************************************)
ClientRequest(op, args) ==
  [request |-> TRUE, op |-> op, args |-> args, local |-> JNull]

ClientLocal(v) ==
  [request |-> FALSE, op |-> <<>>, args |-> <<>>, local |-> v]

\* GitHubClient.list_issues(owner, repo, state), owner and repo being str
ClientListIssues(owner, repo, state) ==
  LET o1 == Strip(StripChars(Strip(owner), {"/"}))
      r1 == Strip(StripChars(Strip(repo), {"/"}))
      joined == Contains(o1, <<"/">>) /\ r1 = <<>>
      o2 == IF joined THEN Split(o1, <<"/">>)[1] ELSE o1
      r2 == IF joined THEN Split(o1, <<"/">>)[2] ELSE r1
      r3 == IF Contains(r2, <<"/">>) THEN Split(r2, <<"/">>)[1] ELSE r2
  IN IF owner = <<>> \/ repo = <<>>
       THEN ClientLocal(ErrorRecord(MsgListIssuesParams))
       ELSE ClientRequest(ActListIssues, <<JStr(o2), JStr(r3), state>>)

(***************************************************************************)
(* GitHubAgent.execute                                                     *)
(***************************************************************************)
RECURSIVE ScanKeys(_, _)
\* the for loop of get_owner_repo over the keys that remain: hit when it
\* returns the two segments of a value with a '/', raised on TypeError
\* ('/' in a number or a bool) or AttributeError (split of a list or dict)
ScanKeys(p, keys) ==
  IF keys = <<>> THEN [raised |-> FALSE, hit |-> FALSE, owner |-> <<>>, repo |-> <<>>]
  ELSE LET val == Get(p, Head(keys), JStr(<<>>))
       IN IF ~Truthy(val) THEN ScanKeys(p, Tail(keys))
          ELSE IF NotIterable(val)
            THEN [raised |-> TRUE, hit |-> FALSE, owner |-> <<>>, repo |-> <<>>]
          ELSE IF ~SlashIn(val) THEN ScanKeys(p, Tail(keys))
          ELSE IF val.t # "str"
            THEN [raised |-> TRUE, hit |-> FALSE, owner |-> <<>>, repo |-> <<>>]
          ELSE LET parts == Split(val.s, <<"/">>)
               IN [raised |-> FALSE, hit |-> TRUE,
                   owner |-> Strip(parts[1]), repo |-> Strip(parts[2])]

\* a get_owner_repo without the loop over the keys: the raw values, stripped
GetOwnerRepo_Raw(p) ==
  LET owner == Get(p, KeyOwner, JStr(<<>>))
      repo  == Get(p, KeyRepo, JStr(<<>>))
  IN IF p.t # "dict" THEN [raised |-> TRUE, owner |-> <<>>, repo |-> <<>>]
     ELSE IF (Truthy(owner) /\ owner.t # "str") \/ (Truthy(repo) /\ repo.t # "str")
       THEN [raised |-> TRUE, owner |-> <<>>, repo |-> <<>>]
     ELSE [raised |-> FALSE, owner |-> Strip(owner.s), repo |-> Strip(repo.s)]

\* get_owner_repo(): the resolved (owner, repo), or raised
GetOwnerRepo(p) ==
  LET owner == Get(p, KeyOwner, JStr(<<>>))
      repo  == Get(p, KeyRepo, JStr(<<>>))
      scan  == ScanKeys(p, <<KeyOwner, KeyRepo, KeyRepository>>)
  IN IF p.t # "dict" THEN [raised |-> TRUE, owner |-> <<>>, repo |-> <<>>]
     ELSE IF scan.raised \/ scan.hit THEN [raised |-> scan.raised, owner |-> scan.owner, repo |-> scan.repo]
     ELSE IF (Truthy(owner) /\ owner.t # "str") \/ (Truthy(repo) /\ repo.t # "str")
       THEN [raised |-> TRUE, owner |-> <<>>, repo |-> <<>>]
     ELSE [raised |-> FALSE, owner |-> Strip(owner.s), repo |-> Strip(repo.s)]

\* the keys of the actions table
ActionTable ==
  {ActListRepos, ActGetRepo, ActListIssues, ActCreateIssue, ActListPrs,
   ActListBranches, ActListCommits, ActGetUser, ActSearchRepos}

\* the actions whose lambda tests `owner and repo`
OwnerRepoActions ==
  {ActGetRepo, ActListIssues, ActCreateIssue, ActListPrs, ActListBranches, ActListCommits}

\* the test `owner and repo` of the table entries
HaveOwnerRepo(owner, repo) == owner # <<>> /\ repo # <<>>

\* actions[action](): what the lambda of a table entry does
RunAction(action, p, owner, repo) ==
  LET have == HaveOwnerRepo(owner, repo)
      o == JStr(owner)
      r == JStr(repo)
  IN CASE action = ActListRepos ->
            ClientRequest(ActListRepos, <<Get(p, KeyUsername, JNull), Get(p, KeyOrg, JNull)>>)
       [] action = ActGetRepo ->
            IF have THEN ClientRequest(ActGetRepo, <<o, r>>)
            ELSE ClientLocal(ErrorRecord(MsgOwnerRepoExample))
       [] action = ActListIssues ->
            IF have THEN ClientListIssues(owner, repo, Get(p, KeyState, JStr(<<"o","p","e","n">>)))
            ELSE ClientLocal(ErrorRecord(MsgOwnerRepoExample))
       [] action = ActCreateIssue ->
            IF ~have THEN ClientLocal(ErrorRecord(MsgOwnerRepo))
            ELSE IF ~HasKey(p, KeyTitle) THEN ClientLocal(ErrorRecord(MsgKeyError(KeyTitle)))
            ELSE ClientRequest(ActCreateIssue,
                   <<o, r, Lookup(p, KeyTitle), Get(p, KeyBody, JStr(<<>>))>>)
       [] action = ActListPrs ->
            IF have THEN ClientRequest(ActListPrs, <<o, r, Get(p, KeyState, JStr(<<"o","p","e","n">>))>>)
            ELSE ClientLocal(ErrorRecord(MsgOwnerRepo))
       [] action = ActListBranches ->
            IF have THEN ClientRequest(ActListBranches, <<o, r>>)
            ELSE ClientLocal(ErrorRecord(MsgOwnerRepo))
       [] action = ActListCommits ->
            IF have THEN ClientRequest(ActListCommits, <<o, r>>)
            ELSE ClientLocal(ErrorRecord(MsgOwnerRepo))
       [] action = ActGetUser ->
            IF ~Truthy(Get(p, KeyUsername, JNull)) THEN ClientRequest(ActGetUser, <<>>)
            ELSE ClientRequest(ActGetUser, <<Lookup(p, KeyUsername)>>)
       [] action = ActSearchRepos ->
            IF Truthy(Get(p, KeyQuery, JNull))
              THEN ClientRequest(ActSearchRepos, <<Get(p, KeyQuery, JStr(<<>>))>>)
              ELSE ClientLocal(ErrorRecord(MsgSearchTerm))

\* execute(intent) up to the remote request: raised when an exception leaves
\* execute (get_owner_repo, or `action in actions` for an unhashable action),
\* else the one request to make or the value returned without a request
Execute(intent) ==
  LET action == Get(intent, KeyAction, JStr(ActUnknown))
      p      == Get(intent, KeyParams, JDict(<<>>))
      res    == GetOwnerRepo(p)
      Raise  == [raised |-> TRUE, request |-> FALSE, op |-> <<>>, args |-> <<>>, local |-> JNull]
      Done(c) == [raised |-> FALSE, request |-> c.request, op |-> c.op, args |-> c.args,
                  local |-> c.local]
  IN IF res.raised THEN Raise
     ELSE IF action.t \in {"list", "dict"} THEN Raise
     ELSE IF action.t = "str" /\ action.s \in ActionTable
       THEN Done(RunAction(action.s, p, res.owner, res.repo))
     ELSE Done(ClientLocal(ErrorRecord(MsgUnknownAction)))

(***************************************************************************)
(* The gate of process() and format_response                               *)
(***************************************************************************)
\* the threshold 0.3 of the gate
GateThreshold == JNum(3, 1)

\* a < b for two numbers (a bool counts as 0 or 1)
NumLess(a, b) == a.n * Pow10(b.e) < b.n * Pow10(a.e)

\* intent.get("action") == "unknown"
ActionIsUnknown(intent) == Get(intent, KeyAction, JNull) = JStr(ActUnknown)

\* the second operand of the gate, intent.get("confidence", 0) < 0.3:
\* "raise" where the comparison raises TypeError
ConfidenceLow(intent) ==
  LET c == Get(intent, KeyConfidence, JNum(0, 0))
  IN IF c.t \notin {"num", "bool"} THEN "raise"
     ELSE IF NumLess(c, GateThreshold) THEN "low" ELSE "ok"

\* a gate that also rejects a confidence equal to the threshold
Gate_RejectAtThreshold(intent) ==
  IF ActionIsUnknown(intent) THEN "reject"
  ELSE IF ConfidenceLow(intent) = "raise" THEN "raise"
  ELSE IF ConfidenceLow(intent) = "low" THEN "reject"
  ELSE IF Get(intent, KeyConfidence, JNum(0, 0)) = GateThreshold THEN "reject"
  ELSE "accept"

\* a gate that tests the action only
Gate_ActionOnly(intent) ==
  IF ActionIsUnknown(intent) THEN "reject" ELSE "accept"

\* line 658: "reject", "accept", or "raise"
Gate(intent) ==
  IF ActionIsUnknown(intent) THEN "reject"
  ELSE IF ConfidenceLow(intent) = "raise" THEN "raise"
  ELSE IF ConfidenceLow(intent) = "low" THEN "reject"
  ELSE "accept"

\* format_response for an Error Record: the prefix and the error text
FormatError(data) == ErrorPrefix \o Lookup(data, KeyError_).s

(***************************************************************************)
(* The texts a user types                                                  *)
(***************************************************************************)
\* "issues do microsoft/vscode"
InIssuesRepo == <<"i","s","s","u","e","s"," ","d","o"," ","m","i","c","r","o","s","o","f","t","/","v","s","c","o","d","e">>

\* "crie uma issue"
InCreateIssue == <<"c","r","i","e"," ","u","m","a"," ","i","s","s","u","e">>

UserInputs ==
  {InIssuesRepo,
   InCreateIssue,
   \* ""
   <<>>,
   \* "Issues do microsoft vscode"
   <<"I","s","s","u","e","s"," ","d","o"," ","m","i","c","r","o","s","o","f","t"," ","v","s","c","o","d","e">>,
   \* "ola foo/bar"
   <<"o","l","a"," ","f","o","o","/","b","a","r">>,
   \* "buscar python"
   <<"b","u","s","c","a","r"," ","p","y","t","h","o","n">>,
   \* "repo foo/bar"
   <<"r","e","p","o"," ","f","o","o","/","b","a","r">>}

\* one phrase for each keyword group of _fallback_parse, in mixed case
KeywordPhrases ==
  <<<<"I","s","s","u","e","s">>,
    <<"b","r","a","n","c","h">>,
    <<"C","o","m","m","i","t","s">>,
    <<"p","u","l","l"," ","r","e","q","u","e","s","t">>,
    <<"R","e","p","o">>,
    <<"b","u","s","c","a","r">>,
    <<"l","i","s","t"," ","r","e","p","o">>>>

RECURSIVE Phrase(_, _)
\* the phrases whose index is in chosen, from the k-th on, separated by spaces
Phrase(chosen, k) ==
  IF k > Len(KeywordPhrases) THEN <<>>
  ELSE IF k \notin chosen THEN Phrase(chosen, k + 1)
  ELSE IF Phrase(chosen, k + 1) = <<>> THEN KeywordPhrases[k]
  ELSE KeywordPhrases[k] \o <<" ">> \o Phrase(chosen, k + 1)

\* "Liste meus repositorios", with the accent
InListMyRepos == <<"L","i","s","t","e"," ","m","e","u","s"," ","r","e","p","o","s","i","t",OAcute,"r","i","o","s">>

\* "Mostre as issues do microsoft/vscode"
InShowIssues == <<"M","o","s","t","r","e"," ","a","s"," ","i","s","s","u","e","s"," ","d","o"," ","m","i","c","r","o","s","o","f","t","/","v","s","c","o","d","e">>

\* "Buscar repositorios de python", with the accent
InSearchPython == <<"B","u","s","c","a","r"," ","r","e","p","o","s","i","t",OAcute,"r","i","o","s"," ","d","e"," ","p","y","t","h","o","n">>

\* the texts that meet the fallback classifier: every choice of phrases,
\* alone or followed by an owner/repo pair, and the three texts of run_tests
KeywordTexts ==
  {Phrase(chosen, 1) : chosen \in SUBSET (1..Len(KeywordPhrases))}
    \cup {Phrase(chosen, 1) \o <<" ","f","o","o","/","b","a","r">> :
            chosen \in SUBSET (1..Len(KeywordPhrases))}
    \cup {InListMyRepos, InShowIssues, InSearchPython}

(***************************************************************************)
(* The texts the model returns: JSON objects assembled from an action      *)
(* member, a params member and a confidence member (each possibly absent), *)
(* bare or wrapped in commentary or a code fence, and texts that are no    *)
(* JSON object at all.                                                     *)
(***************************************************************************)
\* ""action": "list_issues""
MAListIssues == <<"\"","a","c","t","i","o","n","\"",":"," ","\"","l","i","s","t","_","i","s","s","u","e","s","\"">>

ActionMembers ==
  {\* ""
   <<>>,
   MAListIssues,
   \* ""action": "unknown""
   <<"\"","a","c","t","i","o","n","\"",":"," ","\"","u","n","k","n","o","w","n","\"">>,
   \* ""action": "list_repos""
   <<"\"","a","c","t","i","o","n","\"",":"," ","\"","l","i","s","t","_","r","e","p","o","s","\"">>,
   \* ""action": "get_repo""
   <<"\"","a","c","t","i","o","n","\"",":"," ","\"","g","e","t","_","r","e","p","o","\"">>,
   \* ""action": "create_issue""
   <<"\"","a","c","t","i","o","n","\"",":"," ","\"","c","r","e","a","t","e","_","i","s","s","u","e","\"">>,
   \* ""action": "list_prs""
   <<"\"","a","c","t","i","o","n","\"",":"," ","\"","l","i","s","t","_","p","r","s","\"">>,
   \* ""action": "list_branches""
   <<"\"","a","c","t","i","o","n","\"",":"," ","\"","l","i","s","t","_","b","r","a","n","c","h","e","s","\"">>,
   \* ""action": "list_commits""
   <<"\"","a","c","t","i","o","n","\"",":"," ","\"","l","i","s","t","_","c","o","m","m","i","t","s","\"">>,
   \* ""action": "get_user""
   <<"\"","a","c","t","i","o","n","\"",":"," ","\"","g","e","t","_","u","s","e","r","\"">>,
   \* ""action": "search_repos""
   <<"\"","a","c","t","i","o","n","\"",":"," ","\"","s","e","a","r","c","h","_","r","e","p","o","s","\"">>,
   \* ""action": "delete_repo""
   <<"\"","a","c","t","i","o","n","\"",":"," ","\"","d","e","l","e","t","e","_","r","e","p","o","\"">>,
   \* ""action": 5"
   <<"\"","a","c","t","i","o","n","\"",":"," ","5">>,
   \* ""action": ["list_repos"]"
   <<"\"","a","c","t","i","o","n","\"",":"," ","[","\"","l","i","s","t","_","r","e","p","o","s","\"","]">>}

\* ""params": {"owner": "microsoft", "repo": "vscode"}"
MPOwnerRepo == <<"\"","p","a","r","a","m","s","\"",":"," ","{","\"","o","w","n","e","r","\"",":"," ","\"","m","i","c","r","o","s","o","f","t","\"",","," ","\"","r","e","p","o","\"",":"," ","\"","v","s","c","o","d","e","\"","}">>

\* ""params": {"owner": "foo"}"
MPOwnerOnly == <<"\"","p","a","r","a","m","s","\"",":"," ","{","\"","o","w","n","e","r","\"",":"," ","\"","f","o","o","\"","}">>

ParamsMembers ==
  {\* ""
   <<>>,
   MPOwnerRepo,
   \* ""params": {}"
   <<"\"","p","a","r","a","m","s","\"",":"," ","{","}">>,
   \* ""params": {"owner": "microsoft/vscode"}"
   <<"\"","p","a","r","a","m","s","\"",":"," ","{","\"","o","w","n","e","r","\"",":"," ","\"","m","i","c","r","o","s","o","f","t","/","v","s","c","o","d","e","\"","}">>,
   \* ""params": {"owner": "foo", "repo": "bar", "title": "I/O"}"
   <<"\"","p","a","r","a","m","s","\"",":"," ","{","\"","o","w","n","e","r","\"",":"," ","\"","f","o","o","\"",","," ","\"","r","e","p","o","\"",":"," ","\"","b","a","r","\"",","," ","\"","t","i","t","l","e","\"",":"," ","\"","I","/","O","\"","}">>,
   \* ""params": {"owner": "  ", "repo": "vscode"}"
   <<"\"","p","a","r","a","m","s","\"",":"," ","{","\"","o","w","n","e","r","\"",":"," ","\""," "," ","\"",","," ","\"","r","e","p","o","\"",":"," ","\"","v","s","c","o","d","e","\"","}">>,
   \* ""params": {"owner": "/vscode", "repo": "x"}"
   <<"\"","p","a","r","a","m","s","\"",":"," ","{","\"","o","w","n","e","r","\"",":"," ","\"","/","v","s","c","o","d","e","\"",","," ","\"","r","e","p","o","\"",":"," ","\"","x","\"","}">>,
   \* ""params": {"repository": "foo/bar"}"
   <<"\"","p","a","r","a","m","s","\"",":"," ","{","\"","r","e","p","o","s","i","t","o","r","y","\"",":"," ","\"","f","o","o","/","b","a","r","\"","}">>,
   \* ""params": {"owner": "foo"}"
   MPOwnerOnly,
   \* ""params": {"owner": 5}"
   <<"\"","p","a","r","a","m","s","\"",":"," ","{","\"","o","w","n","e","r","\"",":"," ","5","}">>,
   \* ""params": {"query": "python"}"
   <<"\"","p","a","r","a","m","s","\"",":"," ","{","\"","q","u","e","r","y","\"",":"," ","\"","p","y","t","h","o","n","\"","}">>,
   \* ""params": {"username": "octocat"}"
   <<"\"","p","a","r","a","m","s","\"",":"," ","{","\"","u","s","e","r","n","a","m","e","\"",":"," ","\"","o","c","t","o","c","a","t","\"","}">>,
   \* ""params": "microsoft/vscode""
   <<"\"","p","a","r","a","m","s","\"",":"," ","\"","m","i","c","r","o","s","o","f","t","/","v","s","c","o","d","e","\"">>}

\* ""confidence": 1.0"
MCOne == <<"\"","c","o","n","f","i","d","e","n","c","e","\"",":"," ","1",".","0">>

ConfidenceMembers ==
  {\* ""
   <<>>,
   MCOne,
   \* ""confidence": 0.3"
   <<"\"","c","o","n","f","i","d","e","n","c","e","\"",":"," ","0",".","3">>,
   \* ""confidence": 0.29"
   <<"\"","c","o","n","f","i","d","e","n","c","e","\"",":"," ","0",".","2","9">>,
   \* ""confidence": "high""
   <<"\"","c","o","n","f","i","d","e","n","c","e","\"",":"," ","\"","h","i","g","h","\"">>,
   \* ""confidence": null"
   <<"\"","c","o","n","f","i","d","e","n","c","e","\"",":"," ","n","u","l","l">>}

RECURSIVE Join(_)
\* the non-empty members of a sequence, separated by ", "
Join(members) ==
  IF members = <<>> THEN <<>>
  ELSE IF Head(members) = <<>> THEN Join(Tail(members))
  ELSE IF Join(Tail(members)) = <<>> THEN Head(members)
  ELSE Head(members) \o <<",", " ">> \o Join(Tail(members))

\* the JSON object text with the given members
ObjectText(a, p, c) == <<"{">> \o Join(<<a, p, c>>) \o <<"}">>

ObjectTexts ==
  {ObjectText(a, p, c) : a \in ActionMembers, p \in ParamsMembers, c \in ConfidenceMembers}

\* one complete object, the one the wrapped responses carry
SampleObject == ObjectText(MAListIssues, MPOwnerRepo, MCOne)

\* the object inside a fence with a language tag, after a line of commentary
RespFenced ==
  <<"O","k",":","\n">> \o Fence \o <<"j","s","o","n","\n">> \o SampleObject \o <<"\n">> \o Fence

\* the object between two pieces of commentary
RespCommented ==
  <<"J","S","O","N",":"," ">> \o SampleObject \o <<" ","f","i","m",".">>

\* a stray closing brace before the object
RespStrayBrace == <<"}", " ">> \o SampleObject

\* the object followed by a remark between code fences
RespFenceAfter == SampleObject \o <<" ">> \o Fence \o <<"f","i","m">> \o Fence

\* inside a fence with a language tag, an object that holds the text 'json'
RespFencedJsonQuery ==
  Fence \o <<"j","s","o","n","\n">>
    \* {"action": "search_repos", "params": {"query": "json"}, "confidence": 1.0}
    \o <<"{","\"","a","c","t","i","o","n","\"",":"," ","\"","s","e","a","r","c","h","_","r","e","p","o","s","\"",","," ","\"","p","a","r","a","m","s","\"",":"," ","{","\"","q","u","e","r","y","\"",":"," ","\"","j","s","o","n","\"","}",","," ","\"","c","o","n","f","i","d","e","n","c","e","\"",":"," ","1",".","0","}">>
    \o <<"\n">> \o Fence

OtherTexts ==
  {RespFenced,
   RespCommented,
   RespStrayBrace,
   RespFenceAfter,
   RespFencedJsonQuery,
   \* "Erro Ollama: timed out"
   <<"E","r","r","o"," ","O","l","l","a","m","a",":"," ","t","i","m","e","d"," ","o","u","t">>,
   \* ""
   <<>>,
   \* "Desculpe, nao entendi."
   <<"D","e","s","c","u","l","p","e",","," ","n","a","o"," ","e","n","t","e","n","d","i",".">>,
   \* "{"action": "list_repos""
   <<"{","\"","a","c","t","i","o","n","\"",":"," ","\"","l","i","s","t","_","r","e","p","o","s","\"">>,
   \* "[1]"
   <<"[","1","]">>,
   \* "42"
   <<"4","2">>}

\* what OllamaClient.chat can return: a str, or None for a null content
ChatReturns == {JStr(t) : t \in ObjectTexts \cup OtherTexts} \cup {JNull}

\* the returns of OllamaClient.chat that no JSON object can be read from: its
\* own error text, an empty text, a null content
FailedReturns ==
  {JStr(<<"E","r","r","o"," ","O","l","l","a","m","a",":"," ","t","i","m","e","d"," ","o","u","t">>),
   JStr(<<>>),
   JNull}

\* what GitHubClient._request can return: a decoded object, a decoded list,
\* {} for an empty body, or {"error": ...}
RemoteReturns ==
  {JDict(<< <<<<"l","o","g","i","n">>, JStr(<<"o","c","t","o","c","a","t">>)>> >>),
   JList(<<>>),
   JDict(<<>>),
   ErrorRecord(<<"HTTP 404: Not Found">>)}

\* what OllamaClient.generate can return: the rendering, or its own error text
GenerateReturns == {<<"Resumo em markdown">>, <<"Erro: timed out">>}

(***************************************************************************)
(* The stored credential: the config file (load_config, save_config), the  *)
(* session state of each browser session, set_github_token,                *)
(* clear_github_token, handle_oauth_callback and the sidebar of main().    *)
(* Each session runs the script of main() in a thread of its own.  A run   *)
(* that calls set_github_token or clear_github_token goes on in three      *)
(* steps: the load of the config, the change of the loaded copy with the   *)
(* open(CONFIG_FILE, "w") that empties the file, and the json.dump that    *)
(* the close of the file flushes.                                          *)
(***************************************************************************)
\* the number of script runs of one behaviour; the count of runs started is
\* also the clock that datetime.now() reads
MaxRuns == 3

Sessions == {"s1", "s2"}

\* a key that is not in a dict
Absent == "absent"

\* what exchange_code_for_token returns: an access token, or None
ExchangeReturns == {"gho_c", "None"}

\* what GitHubClient.get_user returns: a user object, or {"error": ...}
GetUserReturns == {"octocat", "error"}

\* st.query_params: no code, or the code and the state of a callback URL
\* ("" when the URL carries no state)
QueryParams ==
  {[code |-> "", state |-> ""], [code |-> "c1", state |-> ""],
   [code |-> "c1", state |-> "st1"]}

\* {} as load_config returns it when the file does not exist
EmptyConfig == [github_token |-> Absent, token_set_at |-> 0, github_user |-> Absent]

NoRun ==
  [pc |-> "idle", op |-> "none", cause |-> "none", token |-> Absent, user |-> Absent,
   local |-> EmptyConfig, at |-> 0, state |-> "", exchanged |-> FALSE, raised |-> FALSE]

VARIABLES
  file,     \* the config file: status "ok" with the dict it holds, "empty"
            \* once opened for writing, "corrupt" when two dumps overlapped
  session,  \* st.session_state of each session
  run,      \* the script run of each session
  runs,     \* the number of script runs started
  epoch     \* the config when no operation was in progress, and the
            \* operations started since

credVars == <<file, session, run, runs, epoch>>

InitCred ==
  /\ file = [status |-> "ok", data |-> EmptyConfig]
  /\ session = [s \in Sessions |->
                  [github_token |-> Absent, github_user |-> Absent, oauth_state |-> Absent]]
  /\ run = [s \in Sessions |-> NoRun]
  /\ runs = 0
  /\ epoch = [base |-> EmptyConfig, ops |-> {}]

\* load_config(): json.load raises on a file that holds no complete JSON text
LoadConfig == [raised |-> file.status # "ok", config |-> file.data]

\* lines 806-811: a session without a token takes token and user from the config
InitSession(sess, config) ==
  IF sess.github_token # Absent THEN sess
  ELSE [sess EXCEPT
          !.github_token = config.github_token,
          !.github_user = IF config.github_user # Absent THEN config.github_user ELSE @]

\* st.session_state.get("oauth_state", "")
StoredState(sess) == IF sess.oauth_state = Absent THEN "" ELSE sess.oauth_state

\* handle_oauth_callback(): whether it exchanges the code, and the token and
\* user it hands to set_github_token ("None" when it stores nothing).  The
\* stored state is read at line 255 and used nowhere.
HandleOauthCallback(query, sess, exchange_return, get_user_return) ==
  LET code == query.code
      state == query.state
      stored_state == StoredState(sess)
      token == IF code # "" THEN exchange_return ELSE "None"
      stores == token # "None" /\ get_user_return # "error"
  IN [exchanged |-> code # "",
      state |-> state,
      token |-> IF stores THEN token ELSE "None",
      user |-> IF stores THEN get_user_return ELSE Absent]

\* lines 841-893: the operation the sidebar starts for the session state
\* sess: clear_github_token when the token check fails or Desconectar was
\* clicked, set_github_token when the login form was submitted with a token
\* that get_user accepts
Sidebar(sess, event, new_token, get_user_return) ==
  IF sess.github_token # Absent
    THEN IF get_user_return = "error"
           THEN [op |-> "clear", cause |-> "invalid", token |-> Absent, user |-> Absent]
         ELSE IF event = "logout"
           THEN [op |-> "clear", cause |-> "logout", token |-> Absent, user |-> Absent]
         ELSE [op |-> "none", cause |-> "none", token |-> Absent, user |-> Absent]
    ELSE IF event = "login" /\ get_user_return # "error"
           THEN [op |-> "set", cause |-> "login", token |-> new_token, user |-> get_user_return]
         ELSE [op |-> "none", cause |-> "none", token |-> Absent, user |-> Absent]

\* main() up to the call of set_github_token or clear_github_token
Main(sess, event, query, exchange_return, callback_user, new_token, sidebar_user) ==
  LET loaded == LoadConfig
      s1 == InitSession(sess, loaded.config)
      cb == HandleOauthCallback(query, s1, exchange_return, callback_user)
      sb == Sidebar(s1, event, new_token, sidebar_user)
  IN IF sess.github_token = Absent /\ loaded.raised
       THEN [session |-> sess, raised |-> TRUE, op |-> "none", cause |-> "none",
             token |-> Absent, user |-> Absent, state |-> "", exchanged |-> FALSE]
     ELSE IF cb.token # "None"
       THEN [session |-> s1, raised |-> FALSE, op |-> "set", cause |-> "oauth",
             token |-> cb.token, user |-> cb.user, state |-> cb.state, exchanged |-> TRUE]
     ELSE [session |-> s1, raised |-> FALSE, op |-> sb.op, cause |-> sb.cause,
           token |-> sb.token, user |-> sb.user, state |-> cb.state,
           exchanged |-> cb.exchanged]

(***************************************************************************)
(* process(user_input), one step per call it makes.  pc is the state of    *)
(* the turn: Idle (no turn running), Start, Classifying (parse_intent has  *)
(* returned), Rejected, Dispatching, Formatting, Done, and Raised when an  *)
(* exception left process().                                               *)
(***************************************************************************)
\* the number of turns of one run
MaxTurns == 2

VARIABLES
  pc,             \* the state of the turn
  turn,           \* the number of turns started
  user_input,     \* the argument of process()
  response,       \* what OllamaClient.chat returned
  path,           \* "model" or "fallback": the classifier that built intent
  intent,         \* what parse_intent returned
  result,         \* what execute returned
  formatted,      \* what format_response returned
  envelope,       \* what process() returned
  chatCalls,      \* calls of OllamaClient.chat in this turn
  executeCalls,   \* calls of execute in this turn
  formatCalls,    \* calls of format_response in this turn
  generateCalls,  \* calls of OllamaClient.generate in this turn
  requests,       \* the calls of GitHubClient._request in this turn
  trace           \* the states this turn went through

agentVars ==
  <<pc, turn, user_input, response, path, intent, result, formatted, envelope,
    chatCalls, executeCalls, formatCalls, generateCalls, requests, trace>>

vars == <<agentVars, credVars>>

NoEnvelope ==
  [keys |-> {}, success |-> FALSE, message |-> <<>>, intent |-> JNull,
   result |-> JNull, formatted |-> <<>>]

\* {"success": False, "message": ...}
RejectionEnvelope ==
  [keys |-> {"success", "message"}, success |-> FALSE, message |-> GuidanceMessage,
   intent |-> JNull, result |-> JNull, formatted |-> <<>>]

\* an envelope whose success follows the inner result
ResultEnvelope_ErrorFails(i, r, f) ==
  [keys |-> {"success", "intent", "result", "formatted"},
   success |-> ~IsErrorRecord(r),
   message |-> <<>>, intent |-> i, result |-> r, formatted |-> f]

\* {"success": True, "intent": ..., "result": ..., "formatted": ...}
ResultEnvelope(i, r, f) ==
  [keys |-> {"success", "intent", "result", "formatted"}, success |-> TRUE,
   message |-> <<>>, intent |-> i, result |-> r, formatted |-> f]

\* the per-turn state before process() is called
Fresh ==
  /\ user_input = <<>>
  /\ response = JNull
  /\ path = "none"
  /\ intent = JNull
  /\ result = JNull
  /\ formatted = <<>>
  /\ envelope = NoEnvelope
  /\ chatCalls = 0
  /\ executeCalls = 0
  /\ formatCalls = 0
  /\ generateCalls = 0
  /\ requests = <<>>
  /\ trace = <<>>

Init ==
  /\ pc = "Idle"
  /\ turn = 0
  /\ Fresh
  /\ InitCred

\* the chat UI calls agent.process(text)
Process(text) ==
  /\ pc = "Idle"
  /\ turn < MaxTurns
  /\ pc' = "Start"
  /\ turn' = turn + 1
  /\ user_input' = text
  /\ trace' = <<"Start">>
  /\ UNCHANGED <<response, path, intent, result, formatted, envelope,
                 chatCalls, executeCalls, formatCalls, generateCalls, requests,
                 credVars>>

\* line 656: parse_intent makes its one chat call and classifies
CallParseIntent(chat_return) ==
  /\ pc = "Start"
  /\ \E parsed \in {ParseIntent(user_input, chat_return)} :
        /\ intent' = parsed.intent
        /\ path' = parsed.path
  /\ response' = chat_return
  /\ chatCalls' = chatCalls + 1
  /\ pc' = "Classifying"
  /\ trace' = Append(trace, "Classifying")
  /\ UNCHANGED <<turn, user_input, result, formatted, envelope,
                 executeCalls, formatCalls, generateCalls, requests,
                 credVars>>

\* lines 658-662: the gate
CallGate ==
  /\ pc = "Classifying"
  /\ LET verdict == Gate(intent)
         next == CASE verdict = "reject" -> "Rejected"
                   [] verdict = "accept" -> "Dispatching"
                   [] OTHER -> "Raised"
     IN /\ pc' = next
        /\ trace' = Append(trace, next)
        /\ envelope' = IF verdict = "reject" THEN RejectionEnvelope ELSE envelope
  /\ UNCHANGED <<turn, user_input, response, path, intent, result, formatted,
                 chatCalls, executeCalls, formatCalls, generateCalls, requests,
                 credVars>>

\* a client that repeats a request whose answer is an error
Requested_Retry(plan, remote_return) ==
  LET call == [op |-> plan.op, args |-> plan.args, ret |-> remote_return]
  IN IF ~plan.request THEN <<>>
     ELSE IF IsErrorRecord(remote_return) THEN <<call, call>>
     ELSE <<call>>

\* the calls of _request one execute makes: the one request of its plan, if any
Requested(plan, remote_return) ==
  IF plan.request
    THEN <<[op |-> plan.op, args |-> plan.args, ret |-> remote_return]>>
    ELSE <<>>

\* line 664: execute, with the value _request returns if a request is made
CallExecute(remote_return) ==
  /\ pc = "Dispatching"
  /\ executeCalls' = executeCalls + 1
  /\ \E plan \in {Execute(intent)} :
        /\ pc' = IF plan.raised THEN "Raised" ELSE "Formatting"
        /\ trace' = Append(trace, IF plan.raised THEN "Raised" ELSE "Formatting")
        /\ requests' = requests \o Requested(plan, remote_return)
        /\ result' = IF plan.raised THEN result
                     ELSE IF plan.request THEN remote_return
                     ELSE plan.local
  /\ UNCHANGED <<turn, user_input, response, path, intent, formatted, envelope,
                 chatCalls, formatCalls, generateCalls,
                 credVars>>

\* lines 665-672: format_response(intent["action"], result), with the text
\* generate returns if it is called, and the envelope
CallFormatResponse(generate_return) ==
  /\ pc = "Formatting"
  /\ LET keyError == ~HasKey(intent, KeyAction)
         isError == IsErrorRecord(result)
         text == IF isError THEN FormatError(result) ELSE generate_return
         next == IF keyError THEN "Raised" ELSE "Done"
     IN /\ pc' = next
        /\ trace' = Append(trace, next)
        /\ formatCalls' = IF keyError THEN formatCalls ELSE formatCalls + 1
        /\ generateCalls' = IF keyError \/ isError THEN generateCalls ELSE generateCalls + 1
        /\ formatted' = IF keyError THEN formatted ELSE text
        /\ envelope' = IF keyError THEN envelope ELSE ResultEnvelope(intent, result, text)
  /\ UNCHANGED <<turn, user_input, response, path, intent, result,
                 chatCalls, executeCalls, requests,
                 credVars>>

\* process() has returned or raised; everything of the turn is discarded
Return ==
  /\ pc \in {"Rejected", "Done", "Raised"}
  /\ pc' = "Idle"
  /\ user_input' = <<>>
  /\ response' = JNull
  /\ path' = "none"
  /\ intent' = JNull
  /\ result' = JNull
  /\ formatted' = <<>>
  /\ envelope' = NoEnvelope
  /\ chatCalls' = 0
  /\ executeCalls' = 0
  /\ formatCalls' = 0
  /\ generateCalls' = 0
  /\ requests' = <<>>
  /\ trace' = <<>>
  /\ UNCHANGED <<turn, credVars>>

\* no set_github_token or clear_github_token is between its load and its dump
Quiescent == \A s \in Sessions : run[s].pc = "idle"

\* a script run of session s starts
RunMain(s, event, query, exchange_return, callback_user, new_token, sidebar_user) ==
  /\ run[s].pc = "idle"
  /\ runs < MaxRuns
  /\ event = "logout" => session[s].github_token # Absent
  /\ event = "login" => session[s].github_token = Absent
  /\ runs' = runs + 1
  /\ \E m \in {Main(session[s], event, query, exchange_return, callback_user,
                    new_token, sidebar_user)} :
        /\ session' = [session EXCEPT ![s] = m.session]
        /\ run' = [run EXCEPT ![s] =
                     [pc |-> IF m.op = "none" THEN "idle" ELSE "load",
                      op |-> m.op, cause |-> m.cause, token |-> m.token, user |-> m.user,
                      local |-> EmptyConfig, at |-> runs + 1, state |-> m.state,
                      exchanged |-> m.exchanged, raised |-> m.raised]]
        /\ epoch' = IF m.op = "none" THEN epoch
                    ELSE LET started == [session |-> s, op |-> m.op, token |-> m.token,
                                         user |-> m.user, at |-> runs + 1]
                         IN IF Quiescent THEN [base |-> file.data, ops |-> {started}]
                            ELSE [epoch EXCEPT !.ops = @ \cup {started}]
  /\ UNCHANGED <<file, agentVars>>

\* set_github_token lines 339-340, clear_github_token lines 350-352: the
\* session state changes, then load_config reads the file
OperationLoad(s) ==
  /\ run[s].pc = "load"
  /\ session' = [session EXCEPT ![s] =
                   IF run[s].op = "set"
                     THEN [@ EXCEPT !.github_token = run[s].token]
                     ELSE [@ EXCEPT !.github_token = Absent, !.github_user = Absent]]
  /\ run' = [run EXCEPT ![s] =
               IF LoadConfig.raised
                 THEN [@ EXCEPT !.pc = "idle", !.raised = TRUE]
                 ELSE [@ EXCEPT !.pc = "open", !.local = LoadConfig.config]]
  /\ UNCHANGED <<file, runs, epoch, agentVars>>

\* set_github_token lines 341-345, clear_github_token lines 353-354: the
\* loaded copy changes; then save_config opens the file for writing
OperationOpen(s) ==
  /\ run[s].pc = "open"
  /\ LET user_info == run[s].user # Absent
         config == IF run[s].op = "set"
                     THEN [github_token |-> run[s].token,
                           token_set_at |-> run[s].at,
                           github_user |-> IF user_info THEN run[s].user
                                           ELSE run[s].local.github_user]
                     ELSE [run[s].local EXCEPT !.github_token = Absent,
                                               !.github_user = Absent]
     IN /\ run' = [run EXCEPT ![s] = [@ EXCEPT !.pc = "dump", !.local = config]]
        /\ session' = [session EXCEPT ![s] =
                         IF run[s].op = "set" /\ user_info
                           THEN [@ EXCEPT !.github_user = run[s].user] ELSE @]
  /\ file' = [status |-> "empty", data |-> EmptyConfig]
  /\ UNCHANGED <<runs, epoch, agentVars>>

\* the keys a config holds
Keys(config) ==
  {k \in {"github_token", "token_set_at", "github_user"} :
     \/ k = "github_token" /\ config.github_token # Absent
     \/ k = "token_set_at" /\ config.token_set_at # 0
     \/ k = "github_user" /\ config.github_user # Absent}

\* what the file holds once text is written from its start: the text alone
\* on an empty file; on a file another writer filled since this one opened
\* it, the text when it is the longer one, and the text followed by the end
\* of the other one, which is no JSON, when it is the shorter
Written(config) ==
  IF file.status = "empty" THEN {[status |-> "ok", data |-> config]}
  ELSE IF file.status = "ok" /\ Keys(config) # Keys(file.data) /\ Keys(config) \subseteq Keys(file.data)
    THEN {[status |-> "corrupt", data |-> EmptyConfig]}
  ELSE IF file.status = "ok" /\ Keys(config) # Keys(file.data) /\ Keys(file.data) \subseteq Keys(config)
    THEN {[status |-> "ok", data |-> config]}
  ELSE {[status |-> "ok", data |-> config], [status |-> "corrupt", data |-> EmptyConfig]}

\* save_config lines 194-195: the close of the file flushes json.dump; the
\* run ends (line 269 stores the user of the callback in the session)
OperationDump(s) ==
  /\ run[s].pc = "dump"
  /\ file' \in Written(run[s].local)
  /\ run' = [run EXCEPT ![s] = [@ EXCEPT !.pc = "idle", !.local = EmptyConfig]]
  /\ session' = [session EXCEPT ![s] =
                   IF run[s].cause = "oauth"
                     THEN [@ EXCEPT !.github_user = run[s].user] ELSE @]
  /\ UNCHANGED <<runs, epoch, agentVars>>

Next ==
  \/ \E text \in UserInputs : Process(text)
  \/ \E chat_return \in ChatReturns : CallParseIntent(chat_return)
  \/ CallGate
  \/ \E remote_return \in RemoteReturns : CallExecute(remote_return)
  \/ \E generate_return \in GenerateReturns : CallFormatResponse(generate_return)
  \/ Return

Spec == Init /\ [][Next]_vars

\* a script run starts on a page load, a click on Desconectar or a submit of
\* the login form with the token the user pasted
NextCred ==
  \/ \E s \in Sessions, event \in {"load", "logout", "login"}, query \in QueryParams,
        exchange_return \in ExchangeReturns, callback_user \in GetUserReturns,
        new_token \in {"ghp_a"}, sidebar_user \in GetUserReturns :
       RunMain(s, event, query, exchange_return, callback_user, new_token, sidebar_user)
  \/ \E s \in Sessions : OperationLoad(s)
  \/ \E s \in Sessions : OperationOpen(s)
  \/ \E s \in Sessions : OperationDump(s)

SpecCred == Init /\ [][NextCred]_vars

\* the turns in which the model gives nothing to parse, for the texts built
\* from the keyword phrases
NextFallback ==
  \/ \E text \in KeywordTexts : Process(text)
  \/ \E chat_return \in FailedReturns : CallParseIntent(chat_return)
  \/ CallGate
  \/ \E remote_return \in RemoteReturns : CallExecute(remote_return)
  \/ \E generate_return \in GenerateReturns : CallFormatResponse(generate_return)
  \/ Return

SpecFallback == Init /\ [][NextFallback]_vars

TypeOK ==
  /\ pc \in {"Idle", "Start", "Classifying", "Rejected", "Dispatching", "Formatting",
             "Done", "Raised"}
  /\ turn \in 0..MaxTurns
  /\ path \in {"none", "model", "fallback"}
(***************************************************************************)
(* Properties                                                              *)
(***************************************************************************)
\* v is an object that carries an 'error' field
HasErrorField(v) == v.t = "dict" /\ HasKey(v, KeyError_)

\* parse_intent has returned in this turn
Classified == Len(trace) >= 2

\* the gate has been evaluated in this turn
GateRan == Len(trace) >= 3

\* execute has returned a value in this turn
Executed == executeCalls = 1 /\ pc \in {"Formatting", "Done"}

\* a confidence below 0.3; an absent confidence reads as 0
BelowThreshold(i) ==
  LET c == Get(i, KeyConfidence, JNum(0, 0))
  IN c.t \in {"num", "bool"} /\ c.n * 10 < 3 * Pow10(c.e)

\* C1: when the intent parse_intent returned has action 'unknown' or a
\* confidence below 0.3, the turn ends Rejected with the envelope
\* {success: false, message: guidance}, and execute, _request,
\* format_response and generate are never called in that turn.
C1_RejectedBeforeDispatch ==
  (Classified /\ (ActionIsUnknown(intent) \/ BelowThreshold(intent))) =>
     /\ executeCalls = 0
     /\ formatCalls = 0
     /\ generateCalls = 0
     /\ requests = <<>>
     /\ pc \in {"Classifying", "Rejected"}
     /\ (GateRan => /\ pc = "Rejected"
                    /\ envelope.keys = {"success", "message"}
                    /\ envelope.success = FALSE
                    /\ envelope.message = GuidanceMessage)

\* a model-built intent with a known action was rejected for its confidence
C1_Witness ==
  /\ pc = "Rejected"
  /\ path = "model"
  /\ Get(intent, KeyAction, JNull) = JStr(ActListIssues)
  /\ HasKey(intent, KeyConfidence)
  /\ envelope.message = GuidanceMessage

\* C2: process() never raises: no turn ends with an exception leaving it.
C2_ProcessNeverRaises == pc # "Raised"

\* C3: when the gate accepted the intent and _request returned an object
\* with an 'error' field, process() returns success=true with that object as
\* result and the error string built from its text as formatted, and
\* generate is not called.
C3_RemoteErrorIsContent ==
  (requests # <<>> /\ HasErrorField(requests[1].ret)) =>
     /\ pc \in {"Formatting", "Done"}
     /\ result = requests[1].ret
     /\ generateCalls = 0
     /\ (pc = "Done" =>
           /\ envelope.keys = {"success", "intent", "result", "formatted"}
           /\ envelope.success = TRUE
           /\ envelope.result = requests[1].ret
           /\ envelope.formatted = ErrorPrefix \o Lookup(requests[1].ret, KeyError_).s)

\* get_repo("foo", "bar") answered {"error": "HTTP 404: Not Found"}
C3_Witness ==
  /\ pc = "Done"
  /\ Len(requests) = 1
  /\ requests[1].op = ActGetRepo
  /\ requests[1].args = <<JStr(<<"f","o","o">>), JStr(<<"b","a","r">>)>>
  /\ requests[1].ret = ErrorRecord(<<"HTTP 404: Not Found">>)
  /\ envelope.formatted = <<"<cross-mark> **Erro:** ", "HTTP 404: Not Found">>

\* the two complete paths of a turn
RejectedPath == <<"Start", "Classifying", "Rejected">>

DonePath == <<"Start", "Classifying", "Dispatching", "Formatting", "Done">>

IsPrefix(a, b) == Len(a) <= Len(b) /\ SubSeq(b, 1, Len(a)) = a

\* the states of the turn, without the final Raised of a turn an exception ended
Steps ==
  IF trace # <<>> /\ trace[Len(trace)] = "Raised"
    THEN SubSeq(trace, 1, Len(trace) - 1)
    ELSE trace

\* C4: a turn goes Start, Classifying, then Rejected or Dispatching,
\* Formatting, Done: execute runs only once the gate has let the intent
\* pass, format_response only once execute has returned its result, Rejected
\* carries success=false and Done carries success=true whether or not the
\* inner result is an Error Record.
C4_TurnOrder ==
  /\ IsPrefix(Steps, RejectedPath) \/ IsPrefix(Steps, DonePath)
  /\ executeCalls > 0 =>
       /\ ~ActionIsUnknown(intent)
       /\ ~BelowThreshold(intent)
       /\ IsPrefix(<<"Start", "Classifying", "Dispatching">>, trace)
  /\ formatCalls > 0 =>
       /\ executeCalls = 1
       /\ IsPrefix(<<"Start", "Classifying", "Dispatching", "Formatting">>, trace)
       /\ envelope.result = result
  /\ pc = "Rejected" => envelope.success = FALSE /\ "success" \in envelope.keys
  /\ pc = "Done" => envelope.success = TRUE /\ "success" \in envelope.keys

\* a turn reached Done with an Error Record as its inner result
C4_Witness ==
  /\ pc = "Done"
  /\ trace = DonePath
  /\ HasErrorField(result)
  /\ envelope.success = TRUE

\* the params of an intent, {} when absent
ParamsOf(i) == Get(i, KeyParams, JDict(<<>>))

\* the action of the intent is the str a
ActionIs(i, a) == Get(i, KeyAction, JNull) = JStr(a)

\* the intent names an action that needs owner and repo, and get_owner_repo
\* resolved one of them to the empty string
OwnerRepoMissing(i) ==
  /\ \E a \in {ActGetRepo, ActListIssues, ActListPrs, ActListBranches,
               ActListCommits, ActCreateIssue} : ActionIs(i, a)
  /\ ~GetOwnerRepo(ParamsOf(i)).raised
  /\ \/ GetOwnerRepo(ParamsOf(i)).owner = <<>>
     \/ GetOwnerRepo(ParamsOf(i)).repo = <<>>

\* a search_repos intent whose query is absent or empty
QueryMissing(i) ==
  /\ ActionIs(i, ActSearchRepos)
  /\ Get(ParamsOf(i), KeyQuery, JStr(<<>>)) \in {JStr(<<>>), JNull}

\* C5: once execute has been called with an intent whose action needs owner
\* and repo and whose resolved owner or repo is empty, or with a search_repos
\* intent whose query is empty or absent, execute has returned an Error
\* Record and no remote request was made.
C5_MissingParameterIsErrorRecord ==
  (executeCalls = 1 /\ (OwnerRepoMissing(intent) \/ QueryMissing(intent))) =>
     /\ pc \in {"Formatting", "Done"}
     /\ HasErrorField(result)
     /\ requests = <<>>

\* the response of the model is no text, or a text json.loads rejects
ParseFails(r) == r.t # "str" \/ ~JsonLoads(ExtractJson(r.s)).ok

\* C6: whenever the chat call returned a response whose extraction or parsing
\* fails, parse_intent returns (the turn is in Classifying, no exception
\* left it), and what it returns is the intent _fallback_parse builds from
\* the same user text; for the text 'issues do microsoft/vscode' that intent
\* is list_issues with owner microsoft, repo vscode and confidence 0.7.
C6_FailedParseFallsBack ==
  /\ chatCalls = 1 => Classified
  /\ (pc = "Classifying" /\ ParseFails(response)) =>
     /\ path = "fallback"
     /\ intent = FallbackParse(user_input)
     /\ user_input = InIssuesRepo =>
          intent = JDict(<< <<KeyAction, JStr(ActListIssues)>>,
                            <<KeyParams,
                              JDict(<< <<KeyOwner, JStr(<<"m","i","c","r","o","s","o","f","t">>)>>,
                                       <<KeyRepo, JStr(<<"v","s","c","o","d","e">>)>> >>)>>,
                            <<KeyConfidence, JNum(7, 1)>> >>)

\* 'issues do microsoft/vscode' was classified by the fallback after the
\* chat call returned the error text of the model client
C6_Witness ==
  /\ pc = "Classifying"
  /\ user_input = InIssuesRepo
  /\ response = JStr(<<"E","r","r","o"," ","O","l","l","a","m","a",":"," ","t","i","m","e","d"," ","o","u","t">>)
  /\ path = "fallback"
  /\ ActionIs(intent, ActListIssues)

\* C7 as stated: every classified intent with action 'unknown' carries a
\* confidence below 0.3.
C7_UnknownBelowThreshold ==
  (Classified /\ ActionIsUnknown(intent)) => BelowThreshold(intent)

\* C7 amended: every classified intent with action 'unknown' is rejected by
\* the gate whatever its confidence; an unknown intent of _fallback_parse
\* carries 0.7 when the text holds an owner/repo pair and 0.3 otherwise,
\* never less than 0.3.
C7_UnknownRejectedAtAnyConfidence ==
  (Classified /\ ActionIsUnknown(intent)) =>
     /\ GateRan => pc = "Rejected" /\ envelope = RejectionEnvelope
     /\ path = "fallback" =>
          /\ ~BelowThreshold(intent)
          /\ Lookup(intent, KeyConfidence) =
               IF RepoSearch(user_input).found THEN JNum(7, 1) ELSE JNum(3, 1)

\* the fallback classified the empty text as unknown with confidence 0.3,
\* and the gate rejected it
C7_Witness ==
  /\ pc = "Rejected"
  /\ path = "fallback"
  /\ user_input = <<>>
  /\ ActionIsUnknown(intent)
  /\ Lookup(intent, KeyConfidence) = JNum(3, 1)

\* C8: once _enrich_intent has returned the intent of the model, its
\* params['owner'] holds no '/'.
C8_OwnerHasNoSlash ==
  (Classified /\ path = "model") =>
     LET owner == Get(ParamsOf(intent), KeyOwner, JStr(<<>>))
     IN owner.t = "str" => ~Contains(owner.s, <<"/">>)

\* the corrective hint is part of the message
ContainsHint(msg) ==
  \E k \in 1..Len(msg) :
     msg[k] = "Tente ser mais especifico, ex: 'issues do microsoft/vscode'"

\* execute returned for a create_issue intent whose params carry no title
CreateIssueWithoutTitle ==
  /\ Executed
  /\ ActionIs(intent, ActCreateIssue)
  /\ ~HasKey(ParamsOf(intent), KeyTitle)

\* C9 as stated: for a create_issue intent without a title, execute returns
\* the Error Record that wraps the failed key lookup, and the formatted
\* error string contains the corrective hint.
C9_MissingTitleCarriesHint ==
  CreateIssueWithoutTitle =>
     /\ HasErrorField(result)
     /\ ContainsHint(Lookup(result, KeyError_).s)
     /\ pc = "Done" => ContainsHint(formatted)

\* C9 amended: for a create_issue intent without a title, execute makes no
\* remote request and returns an Error Record: the wrapped key lookup
\* failure, whose text carries the corrective hint, only when the resolved
\* owner and repo are both non-empty, and 'Informe owner/repo', without the
\* hint, when one of them is empty (the case of 'crie uma issue'); the
\* formatted string is the error prefix followed by that text.
C9_MissingTitleAfterOwnerRepo ==
  CreateIssueWithoutTitle =>
     /\ requests = <<>>
     /\ generateCalls = 0
     /\ HasErrorField(result)
     /\ IF OwnerRepoMissing(intent)
          THEN Lookup(result, KeyError_).s = <<"Informe owner/repo">>
          ELSE /\ Lookup(result, KeyError_).s[1] = "Parametro faltando: "
               /\ SubSeq(Lookup(result, KeyError_).s, 2, 8) = <<"'">> \o KeyTitle \o <<"'">>
               /\ ContainsHint(Lookup(result, KeyError_).s)
     /\ pc = "Done" =>
          /\ formatted = <<"<cross-mark> **Erro:** ">> \o Lookup(result, KeyError_).s
          /\ envelope.success = TRUE

\* for 'crie uma issue' the model named owner and repo but no title, and the
\* turn ended with the hint in the formatted string
C9_Witness ==
  /\ pc = "Done"
  /\ user_input = InCreateIssue
  /\ CreateIssueWithoutTitle
  /\ ~OwnerRepoMissing(intent)
  /\ ContainsHint(formatted)

\* the test of the table entry of the action passes: owner and repo for the
\* actions that need them, the query for search_repos
PassesValidation(i) ==
  /\ \E a \in ActionTable : ActionIs(i, a)
  /\ ~GetOwnerRepo(ParamsOf(i)).raised
  /\ ~OwnerRepoMissing(i)
  /\ ~QueryMissing(i)

\* within one turn: one chat call once parse_intent returned, none before,
\* at most one execute and at most one remote request
NoRetries ==
  /\ chatCalls = (IF Classified THEN 1 ELSE 0)
  /\ executeCalls <= 1
  /\ Len(requests) <= 1

\* execute made one request, for the action of the intent, and returned what
\* the request returned
OneRequestVerbatim ==
  /\ Len(requests) = 1
  /\ ActionIs(intent, requests[1].op)
  /\ result = requests[1].ret

\* C10 as stated: no retries, and every execute whose intent passes
\* parameter validation makes exactly one remote request and returns its
\* return value unchanged.
C10_OneRequestPerDispatch ==
  /\ NoRetries
  /\ (Executed /\ PassesValidation(intent)) => OneRequestVerbatim

\* C10 amended: no retries, and every execute whose intent passes parameter
\* validation and, for create_issue, carries a title makes exactly one
\* remote request and returns its return value unchanged; a create_issue
\* without a title makes none.
C10_OneRequestPerCompleteDispatch ==
  /\ NoRetries
  /\ (Executed /\ PassesValidation(intent)) =>
        IF ActionIs(intent, ActCreateIssue) /\ ~HasKey(ParamsOf(intent), KeyTitle)
          THEN requests = <<>>
          ELSE OneRequestVerbatim

\* list_issues("microsoft", "vscode", "open") was requested once and its
\* answer, an error, is the result of the turn
C10_Witness ==
  /\ pc = "Done"
  /\ chatCalls = 1
  /\ Len(requests) = 1
  /\ requests[1].op = ActListIssues
  /\ requests[1].args = <<JStr(<<"m","i","c","r","o","s","o","f","t">>),
                          JStr(<<"v","s","c","o","d","e">>),
                          JStr(<<"o","p","e","n">>)>>
  /\ requests[1].ret = ErrorRecord(<<"HTTP 404: Not Found">>)
  /\ result = requests[1].ret

\* the turn is the one of process('') and parse_intent has returned
EmptyInputClassified == Classified /\ user_input = <<>>

\* C11 as stated: for the empty text, whichever classifier built the intent,
\* its action is 'unknown', the gate rejects and process('') returns
\* {success: false, message: guidance}.
C11_EmptyInputRejected ==
  EmptyInputClassified =>
     /\ ActionIsUnknown(intent)
     /\ pc \in {"Classifying", "Rejected"}
     /\ pc = "Rejected" => envelope = RejectionEnvelope

\* C11 amended: for the empty text the fallback classifier yields action
\* 'unknown' with confidence 0.3 and empty owner and repo, the gate rejects
\* and process('') returns {success: false, message: guidance} without any
\* call of execute; when the reply of the model parses, the intent is the
\* one the model gave and the gate rejects it only if its action is
\* 'unknown' or its confidence is below 0.3.
C11_EmptyInputRejectedOnFallback ==
  EmptyInputClassified =>
     /\ path = "fallback" =>
          /\ intent = JDict(<< <<KeyAction, JStr(ActUnknown)>>,
                               <<KeyParams, JDict(<< <<KeyOwner, JStr(<<>>)>>,
                                                     <<KeyRepo, JStr(<<>>)>> >>)>>,
                               <<KeyConfidence, JNum(3, 1)>> >>)
          /\ pc \in {"Classifying", "Rejected"}
          /\ executeCalls = 0
          /\ pc = "Rejected" => envelope = RejectionEnvelope
     /\ (path = "model" /\ GateRan) =>
          (pc = "Rejected" <=> (ActionIsUnknown(intent) \/ BelowThreshold(intent)))

\* process('') was rejected after the chat call returned a text that is no
\* JSON and the fallback classified the empty text
C11_Witness ==
  /\ pc = "Rejected"
  /\ user_input = <<>>
  /\ response = JStr(<<"D","e","s","c","u","l","p","e",","," ","n","a","o"," ","e","n","t","e","n","d","i",".">>)
  /\ path = "fallback"
  /\ envelope = RejectionEnvelope

\* the steps of a running turn, from parse_intent to the return of process()
TurnStep ==
  \/ \E chat_return \in ChatReturns : CallParseIntent(chat_return)
  \/ CallGate
  \/ \E remote_return \in RemoteReturns : CallExecute(remote_return)
  \/ \E generate_return \in GenerateReturns : CallFormatResponse(generate_return)
  \/ Return

\* C12: every process() invocation ends in Rejected or Done and none loops or
\* waits: a turn goes through at most the five states of its longest path,
\* and until it is Rejected or Done it is not over and its next step can be
\* taken with what the collaborator call returns.
C12_TurnEndsRejectedOrDone ==
  /\ Len(trace) <= Len(DonePath)
  /\ pc \notin {"Idle", "Rejected", "Done"} => (pc # "Raised" /\ ENABLED TurnStep)

\* the causes that are an explicit user action: the submit of the login
\* form, the return from the authorization page, the click on Desconectar
ExplicitActions == {"login", "oauth", "logout"}

\* C13: the stored credential (the token of the session and the token in
\* the config file) is written only as the effect of an explicit login or
\* logout: every step of set_github_token or clear_github_token that changes
\* the session state or the config file belongs to a run that the user's
\* login or logout started, never to a page rendering whose get_user check
\* failed.
C13_WrittenOnlyOnLoginOrLogout ==
  [][\A s \in Sessions :
       (/\ run[s].pc # "idle"
        /\ run'[s] # run[s]
        /\ (file' # file \/ session'[s] # session[s]))
          => run[s].cause \in ExplicitActions]_vars

\* what set_github_token or clear_github_token makes of a config when it
\* runs alone
ApplyOperation(config, o) ==
  IF o.op = "set"
    THEN [github_token |-> o.token, token_set_at |-> o.at,
          github_user |-> IF o.user # Absent THEN o.user ELSE config.github_user]
    ELSE [config EXCEPT !.github_token = Absent, !.github_user = Absent]

\* the configs the two operations a and b leave when one runs after the other
SerialOutcomes(base, a, b) ==
  {ApplyOperation(ApplyOperation(base, a), b), ApplyOperation(ApplyOperation(base, b), a)}

\* C14: once a set_github_token and a clear_github_token of two sessions,
\* started while the other was in progress, have both ended, the config file
\* holds what one of the two serial orders of the two operations leaves.
C14_SetAndClearSerializable ==
  \A a, b \in epoch.ops :
     (/\ Quiescent
      /\ epoch.ops = {a, b}
      /\ a.session # b.session
      /\ a.op = "set"
      /\ b.op = "clear")
        => /\ file.status = "ok"
           /\ file.data \in SerialOutcomes(epoch.base, a, b)

\* C19: handle_oauth_callback exchanges the code, and stores the token, only
\* when the state of the callback URL equals the oauth_state stored in the
\* session.
C19_StateValidated ==
  \A s \in Sessions :
     (run[s].exchanged \/ run[s].cause = "oauth") =>
        run[s].state = StoredState(session[s])

\* text[i..j] is a balanced {...} span: it opens at i, closes at j, and the
\* braces opened from i on are all closed at j and not before
BalancedSpan(text, i, j) ==
  /\ text[i] = "{"
  /\ text[j] = "}"
  /\ DepthAfter(text, j) = DepthAfter(text, i - 1)
  /\ \A k \in i..(j - 1) : DepthAfter(text, k) > DepthAfter(text, i - 1)

HasBalancedSpan(text) ==
  \E i \in 1..Len(text) : \E j \in i..Len(text) : BalancedSpan(text, i, j)

\* the balanced span that starts first
FirstBalancedSpan(text) ==
  LET i == CHOOSE a \in 1..Len(text) :
             /\ \E j \in a..Len(text) : BalancedSpan(text, a, j)
             /\ \A b \in 1..(a - 1) : \A j \in b..Len(text) : ~BalancedSpan(text, b, j)
      j == CHOOSE c \in i..Len(text) : BalancedSpan(text, i, c)
  IN SubSeq(text, i, j)

\* C15: for every response of the model that holds a balanced {...} span,
\* the text parse_intent hands to json.loads is the first such span,
\* whatever surrounds it.
C15_FirstBalancedSpanParsed ==
  (pc = "Classifying" /\ response.t = "str" /\ HasBalancedSpan(response.s)) =>
     ExtractJson(response.s) = FirstBalancedSpan(response.s)

\* the intent json.loads built from the response, before _enrich_intent
ModelIntent == JsonLoads(ExtractJson(response.s)).v

\* parse_intent has just returned an intent built from the reply of the model
EnrichedModelIntent == pc = "Classifying" /\ path = "model"

\* the owner of the params is a non-empty text without '/'
OwnerSlashFree(p) ==
  /\ Get(p, KeyOwner, JNull).t = "str"
  /\ Get(p, KeyOwner, JNull).s # <<>>
  /\ ~Contains(Get(p, KeyOwner, JNull).s, <<"/">>)

\* the params of the intent are those of m when the owner of m is slash-free
ParamsKept(m) == OwnerSlashFree(ParamsOf(m)) => ParamsOf(intent) = ParamsOf(m)

\* C16 as stated: when the owner the model extracted is present and holds no
\* '/', _enrich_intent leaves the params of the model unchanged, whatever
\* repo is.
C16_SlashFreeOwnerKept == EnrichedModelIntent => ParamsKept(ModelIntent)

\* the test of line 557: owner and repo both truthy and no '/' in owner
OwnerAndRepoValid(p) ==
  /\ Truthy(Get(p, KeyOwner, JNull))
  /\ Truthy(Get(p, KeyRepo, JNull))
  /\ ~SlashIn(Get(p, KeyOwner, JNull))

\* _enrich_intent made of the intent m of the model what line 557 and the
\* first owner/repo pair of the text require: m itself, or m with
\* params.owner and params.repo overwritten and every other member kept
EnrichedAsLine557(m, match) ==
  IF OwnerAndRepoValid(ParamsOf(m)) \/ ~match.found
    THEN intent = m
    ELSE /\ Get(ParamsOf(intent), KeyOwner, JNull) = JStr(match.owner)
         /\ Get(ParamsOf(intent), KeyRepo, JNull) = JStr(match.repo)
         /\ Len(intent.kv) = Len(m.kv)
         /\ \A k \in 1..Len(m.kv) :
              m.kv[k][1] # KeyParams => intent.kv[k] = m.kv[k]
         /\ \A k \in 1..Len(ParamsOf(m).kv) :
              ParamsOf(m).kv[k][1] \notin {KeyOwner, KeyRepo} =>
                Get(ParamsOf(intent), ParamsOf(m).kv[k][1], JNull) = ParamsOf(m).kv[k][2]

\* C16 amended: _enrich_intent leaves the intent of the model unchanged when
\* the parsed owner and repo are both non-empty and owner holds no '/', or
\* when the user text holds no owner/repo pair; in every other case (owner
\* absent or empty, repo absent or empty, or a '/' in owner) it overwrites
\* params.owner and params.repo with the first pair of the user text and
\* leaves every other member as the model gave it.
C16_RescanUnlessOwnerAndRepoValid ==
  EnrichedModelIntent => EnrichedAsLine557(ModelIntent, RepoSearch(user_input))

\* the model gave owner 'foo' and no repo for 'issues do microsoft/vscode',
\* and the enriched intent carries owner microsoft and repo vscode
C16_Witness ==
  /\ EnrichedModelIntent
  /\ user_input = InIssuesRepo
  /\ response = JStr(ObjectText(MAListIssues, MPOwnerOnly, MCOne))
  /\ ParamsOf(intent) =
       JDict(<< <<KeyOwner, JStr(<<"m","i","c","r","o","s","o","f","t">>)>>,
                <<KeyRepo, JStr(<<"v","s","c","o","d","e">>)>> >>)

\* the keyword groups in the stated precedence, each with its action; the
\* repository group counts only when the text holds an owner/repo pair
KeywordGroups ==
  <<[words |-> KwIssues, action |-> ActListIssues, pair |-> FALSE],
    [words |-> KwBranches, action |-> ActListBranches, pair |-> FALSE],
    [words |-> KwCommits, action |-> ActListCommits, pair |-> FALSE],
    [words |-> KwPrs, action |-> ActListPrs, pair |-> FALSE],
    [words |-> KwRepo, action |-> ActGetRepo, pair |-> TRUE],
    [words |-> KwSearch, action |-> ActSearchRepos, pair |-> FALSE],
    [words |-> KwMyRepos, action |-> ActListRepos, pair |-> FALSE]>>

\* the groups the text matches, whatever the case of its letters
MatchingGroups(text) ==
  {g \in 1..Len(KeywordGroups) :
     /\ \E w \in KeywordGroups[g].words : Contains(Lower(text), w)
     /\ KeywordGroups[g].pair => RepoSearch(text).found}

\* the action of the earliest matching group, 'unknown' when none matches
EarliestAction(matching) ==
  IF matching = {} THEN ActUnknown
  ELSE KeywordGroups[CHOOSE g \in matching : \A h \in matching : g <= h].action

\* C17: the action of every intent _fallback_parse returns is the one of the
\* earliest keyword group the text matches in the precedence issues,
\* branches, commits, pull requests, repository (with an owner/repo pair),
\* search, 'list my repos', and 'unknown' when no group matches; the three
\* texts of run_tests give list_repos, list_issues and search_repos.
C17_EarliestKeywordGroupWins ==
  (pc = "Classifying" /\ path = "fallback") =>
     /\ ActionIs(intent, EarliestAction(MatchingGroups(user_input)))
     /\ user_input = InListMyRepos => ActionIs(intent, ActListRepos)
     /\ user_input = InShowIssues => ActionIs(intent, ActListIssues)
     /\ user_input = InSearchPython => ActionIs(intent, ActSearchRepos)

\* a text that matches the issues, repository and search groups and holds an
\* owner/repo pair was classified list_issues
C17_Witness ==
  /\ pc = "Classifying"
  /\ path = "fallback"
  /\ user_input = Phrase({1, 5, 6}, 1) \o <<" ","f","o","o","/","b","a","r">>
  /\ MatchingGroups(user_input) = {1, 5, 6}
  /\ ActionIs(intent, ActListIssues)

\* the actions whose client method receives the resolved owner and repo as
\* they are (list_issues cleans them once more)
PassesOwnerRepo == OwnerRepoActions \ {ActListIssues}

\* execute made the request of such an action in this turn
ResolvedDispatch ==
  /\ pc \in {"Formatting", "Done"}
  /\ Len(requests) = 1
  /\ requests[1].op \in PassesOwnerRepo

\* the first two slash-separated segments of a text, stripped
FirstSegments(s) ==
  <<JStr(Strip(Split(s, <<"/">>)[1])), JStr(Strip(Split(s, <<"/">>)[2]))>>

\* the positions of the params members whose value is a text with a '/'
SlashValues(p) ==
  {i \in 1..Len(p.kv) : p.kv[i][2].t = "str" /\ Contains(p.kv[i][2].s, <<"/">>)}

\* the owner and repo of the request are the segments of the first value of
\* params, under any key, that holds a '/'
ArgsFromAnyValue(p, args) ==
  \A i \in SlashValues(p) :
     (\A j \in SlashValues(p) : i <= j) =>
        SubSeq(args, 1, 2) = FirstSegments(p.kv[i][2].s)

ScannedKeys == <<KeyOwner, KeyRepo, KeyRepository>>

\* the scanned keys, by position, whose value is a text with a '/'
SlashKeys(p) ==
  {k \in 1..Len(ScannedKeys) :
     /\ Get(p, ScannedKeys[k], JNull).t = "str"
     /\ Contains(Get(p, ScannedKeys[k], JNull).s, <<"/">>)}

\* the owner and repo of the request are the segments of the first scanned
\* key that holds a '/', and the stripped owner and repo members when none does
ArgsFromScannedKeys(p, hits, args) ==
  IF hits # {}
    THEN SubSeq(args, 1, 2) =
           FirstSegments(Get(p, ScannedKeys[CHOOSE k \in hits : \A h \in hits : k <= h], JNull).s)
    ELSE SubSeq(args, 1, 2) =
           <<JStr(Strip(Get(p, KeyOwner, JStr(<<>>)).s)),
             JStr(Strip(Get(p, KeyRepo, JStr(<<>>)).s))>>

OwnerAndRepoExtracted(p) ==
  /\ Get(p, KeyOwner, JStr(<<>>)).s # <<>>
  /\ Get(p, KeyRepo, JStr(<<>>)).s # <<>>

\* the confidence of the intent is 0.7 with owner and repo, else 0.3
ConfidenceByPair(i, p) ==
  Get(i, KeyConfidence, JNull) = IF OwnerAndRepoExtracted(p) THEN JNum(7, 1) ELSE JNum(3, 1)

\* C20: every intent _fallback_parse returns has confidence exactly 0.7
\* when both owner and repo were extracted and exactly 0.3 otherwise, never
\* below the threshold of the gate; process() rejects it if and only if its
\* action is 'unknown', and a fallback intent with a recognised action and
\* no owner/repo goes on to the dispatch.
C20_FallbackRejectedIffUnknown ==
  (path = "fallback" /\ Classified) =>
     /\ ConfidenceByPair(intent, Get(intent, KeyParams, JNull))
     /\ ~BelowThreshold(intent)
     /\ pc # "Raised"
     /\ GateRan => (pc = "Rejected" <=> ActionIsUnknown(intent))
     /\ (GateRan /\ ~ActionIsUnknown(intent)) =>
          /\ pc \in {"Dispatching", "Formatting", "Done"}
          /\ pc # "Dispatching" => executeCalls = 1

\* "Commits", which names no owner/repo pair, was classified list_commits
\* with confidence 0.3 by the fallback, passed the gate and was dispatched
C20_Witness ==
  /\ path = "fallback"
  /\ user_input = KeywordPhrases[3]
  /\ ActionIs(intent, ActListCommits)
  /\ ~OwnerAndRepoExtracted(Get(intent, KeyParams, JNull))
  /\ Get(intent, KeyConfidence, JNull) = JNum(3, 1)
  /\ pc = "Formatting"
  /\ executeCalls = 1

\* the keys of a dict, in the order of its members
KeysOf(d) == [k \in 1..Len(d.kv) |-> d.kv[k][1]]

\* the turn of a search_repos intent without a query: no request is made,
\* execute returns the missing-search-term record, and process() returns it
\* in an envelope with success true and the error text as formatted
SearchEndsWithoutQuery ==
  /\ pc \in {"Classifying", "Dispatching", "Formatting", "Done"}
  /\ requests = <<>>
  /\ generateCalls = 0
  /\ pc \in {"Formatting", "Done"} => result = ErrorRecord(MsgSearchTerm)
  /\ pc = "Done" =>
       envelope = ResultEnvelope(intent, ErrorRecord(MsgSearchTerm),
                                 ErrorPrefix \o MsgSearchTerm)

\* C21: the params of every intent _fallback_parse returns hold exactly the
\* keys owner and repo; so when the fallback selects search_repos the
\* dispatch finds no query, returns the missing-search-term Error Record
\* without calling the remote search, and process() ends with success true
\* and the error text.
C21_FallbackSearchHasNoQuery ==
  (path = "fallback" /\ Classified) =>
     /\ Get(intent, KeyParams, JNull).t = "dict"
     /\ KeysOf(Get(intent, KeyParams, JNull)) = <<KeyOwner, KeyRepo>>
     /\ ActionIs(intent, ActSearchRepos) => SearchEndsWithoutQuery

\* "Buscar repositorios de python" was classified search_repos by the
\* fallback and the turn ended with success true and the missing-search-term
\* record, no request made
C21_Witness ==
  /\ path = "fallback"
  /\ user_input = InSearchPython
  /\ ActionIs(intent, ActSearchRepos)
  /\ pc = "Done"
  /\ requests = <<>>
  /\ envelope.success
  /\ envelope.result = ErrorRecord(MsgSearchTerm)
  /\ envelope.formatted = ErrorPrefix \o MsgSearchTerm
====
